---- MODULE Spec2Model ----
(***************************************************************************)
(* Hybrid query resolution engine of the financial-advisor backend:        *)
(* the structured query executor, the query classifier and the chat        *)
(* endpoint over the in-memory transaction store (backend/app.py,          *)
(* backend/rag_service.py).                                                *)
(*                                                                         *)
(* Strings are sequences of one-character strings, so that lower() and the *)
(* substring operator `in` are computed, not assumed.  ISO dates            *)
(* 'YYYY-MM-DD' are triples <<y, m, d>>; comparing two zero-padded ISO     *)
(* strings is the lexicographic comparison of the triples.  Amounts are    *)
(* integers (the unit is irrelevant to the comparisons and sums).          *)
(***************************************************************************)
EXTENDS Integers, Sequences, FiniteSets, TLC

VARIABLES
    plan,       \* execute_structured_query: the classification argument
    txns,       \* execute_structured_query: the all_transactions argument
    res,        \* execute_structured_query: the returned dict (or the raise)
    pc,         \* "ready" before a call, "classified", "done"; "serving" for the endpoints
    call,       \* classify_financial_query: the arguments query, use_llm, mode
    env,        \* datetime.now() and the replies of the models to the request
    llm_calls,  \* calls made to the classification and the temporal model
    temporal_cache,         \* rag_service._temporal_cache
    CACHED_TRANSACTIONS,    \* app.CACHED_TRANSACTIONS
    TRANSACTION_UPDATES,    \* app.TRANSACTION_UPDATES
    request,                \* the request being handled
    response,               \* the body and status of the last response
    threads,                \* the requests running at the same time: position and locals
    returned,               \* what the finished calls of the function under study returned
    rag_service,            \* rag_service.rag_service: the RAGService of get_rag_service()
    conversation_memory,    \* the collection `conversation_memory` of the vector store
    locals                  \* chat_with_rag: locals of the request answered last

execVars == <<plan, txns, res, pc>>

classifyVars == <<call, env, llm_calls, temporal_cache>>

storeVars == <<CACHED_TRANSACTIONS, TRANSACTION_UPDATES, request, response,
               rag_service, conversation_memory, locals>>

chatVars == <<rag_service, conversation_memory, locals>>

threadVars == <<threads, returned>>

vars == <<plan, txns, res, pc, call, env, llm_calls, temporal_cache,
          CACHED_TRANSACTIONS, TRANSACTION_UPDATES, request, response, threads, returned,
          rag_service, conversation_memory, locals>>

(***************************************************************************)
(* Python values                                                           *)
(***************************************************************************)

\* A dict key that is missing, a key bound to None, a key bound to a value.
Absent == [tag |-> "absent"]

NoneV == [tag |-> "none"]

Some(v) == [tag |-> "some", v |-> v]

IsSome(o) == o.tag = "some"

\* Python truthiness of an optional string/date value (None and missing are falsy).
TruthyOpt(o) == o.tag = "some"

UpperChars == <<"A","B","C","D","E","F","G","H","I","J","K","L","M","N","O","P","Q","R","S","T","U","V","W","X","Y","Z">>

LowerChars == <<"a","b","c","d","e","f","g","h","i","j","k","l","m","n","o","p","q","r","s","t","u","v","w","x","y","z">>

LowerChar(c) ==
    IF \E i \in 1..Len(UpperChars) : UpperChars[i] = c
    THEN LowerChars[CHOOSE i \in 1..Len(UpperChars) : UpperChars[i] = c]
    ELSE c

\* str.lower()
Lower(s) == [i \in 1..Len(s) |-> LowerChar(s[i])]

\* pat in text  (substring test; the empty string is in every string)
Contains(pat, text) ==
    \E i \in 0..(Len(text) - Len(pat)) :
        \A j \in 1..Len(pat) : text[i + j] = pat[j]

\* any(p in text for p in pats)
AnyIn(pats, text) == \E k \in 1..Len(pats) : Contains(pats[k], text)

Min2(a, b) == IF a <= b THEN a ELSE b

Max2(a, b) == IF a >= b THEN a ELSE b

Abs(n) == IF n < 0 THEN 0 - n ELSE n

\* seq[:n] for an integer n (a negative n counts from the end).
Prefix(s, n) ==
    IF n >= 0 THEN SubSeq(s, 1, Min2(n, Len(s)))
    ELSE SubSeq(s, 1, Max2(0, Len(s) + n))

(***************************************************************************)
(* Dates                                                                   *)
(***************************************************************************)

\* a <= b on 'YYYY-MM-DD' strings
DateLeq(a, b) ==
    \/ a[1] < b[1]
    \/ a[1] = b[1] /\ a[2] < b[2]
    \/ a[1] = b[1] /\ a[2] = b[2] /\ a[3] <= b[3]

\* _matches_month_year: strptime, then month and year compared
MatchesMonthYear(date, month, year) ==
    /\ IsSome(month)
    /\ IsSome(year)
    /\ date[2] = month.v
    /\ date[1] = year.v

\* datetime arithmetic: the proleptic Gregorian calendar, day 1 = 2000-01-01.
EpochYear == 2000

IsLeap(y) == (y % 4 = 0 /\ y % 100 # 0) \/ y % 400 = 0

DaysInYear(y) == IF IsLeap(y) THEN 366 ELSE 365

DaysInMonth(y, m) ==
    IF m = 2 THEN (IF IsLeap(y) THEN 29 ELSE 28)
    ELSE IF m \in {4, 6, 9, 11} THEN 30
    ELSE 31

RECURSIVE DaysBeforeYear(_)
DaysBeforeYear(y) == IF y <= EpochYear THEN 0 ELSE DaysInYear(y - 1) + DaysBeforeYear(y - 1)

RECURSIVE DaysBeforeMonth(_, _)
DaysBeforeMonth(y, m) == IF m <= 1 THEN 0 ELSE DaysInMonth(y, m - 1) + DaysBeforeMonth(y, m - 1)

\* date.toordinal(), counted from the epoch year
Ordinal(d) == DaysBeforeYear(d[1]) + DaysBeforeMonth(d[1], d[2]) + d[3]

RECURSIVE YearOfOrdinal(_, _)
YearOfOrdinal(n, y) == IF n <= DaysInYear(y) THEN y ELSE YearOfOrdinal(n - DaysInYear(y), y + 1)

RECURSIVE MonthOfDayOfYear(_, _, _)
MonthOfDayOfYear(n, y, m) ==
    IF n <= DaysInMonth(y, m) THEN m ELSE MonthOfDayOfYear(n - DaysInMonth(y, m), y, m + 1)

\* date.fromordinal()
FromOrdinal(n) ==
    LET y  == YearOfOrdinal(n, EpochYear)
        dy == n - DaysBeforeYear(y)
        m  == MonthOfDayOfYear(dy, y, 1)
    IN  <<y, m, dy - DaysBeforeMonth(y, m)>>

\* d - timedelta(days=n)
MinusDays(d, n) == FromOrdinal(Ordinal(d) - n)

\* date.weekday(): Monday is 0; 2000-01-01 was a Saturday
Weekday(d) == (Ordinal(d) + 4) % 7

(***************************************************************************)
(* Temporal filters: the dict under filters['temporal'].  Each key is       *)
(* missing, None or a value; `other` says the dict has keys the executor   *)
(* does not read (such as "type"/"value").  None and {} are the record     *)
(* with every key missing.                                                 *)
(***************************************************************************)

NoTemporal ==
    [date |-> Absent, month |-> Absent, year |-> Absent,
     start_date |-> Absent, end_date |-> Absent, other |-> FALSE]

ExactDate(d) == [NoTemporal EXCEPT !.date = Some(d)]

MonthYear(m, y) == [NoTemporal EXCEPT !.month = Some(m), !.year = Some(y)]

RangeFrom(s) == [NoTemporal EXCEPT !.start_date = Some(s)]

RangeBetween(s, e) == [NoTemporal EXCEPT !.start_date = Some(s), !.end_date = Some(e)]

\* `if temporal:`  (a non-empty dict)
TruthyTemporal(t) ==
    \/ t.date # Absent
    \/ t.month # Absent
    \/ t.year # Absent
    \/ t.start_date # Absent
    \/ t.end_date # Absent
    \/ t.other

(***************************************************************************)
(* Sequences                                                               *)
(***************************************************************************)

RECURSIVE SumSigned(_)
\* Mutant of SumAbs: the amounts are added with their sign.
SumSigned(s) == IF s = << >> THEN 0 ELSE Head(s).amount + SumSigned(Tail(s))

RECURSIVE SumAbs(_)
\* sum(abs(float(t['amount'])) for t in s)
SumAbs(s) == IF s = << >> THEN 0 ELSE Abs(Head(s).amount) + SumAbs(Tail(s))

RECURSIVE LastMinBy(_)
\* Mutant of FirstMinBy: among equal amounts the last element wins.
LastMinBy(s) ==
    IF Len(s) = 1 THEN s[1]
    ELSE LET r == LastMinBy(SubSeq(s, 1, Len(s) - 1))
         IN  IF s[Len(s)].amount <= r.amount THEN s[Len(s)] ELSE r

RECURSIVE FirstMinBy(_)
\* min(s, key=amount): the first element of least amount (s non-empty)
FirstMinBy(s) ==
    IF Len(s) = 1 THEN s[1]
    ELSE LET r == FirstMinBy(SubSeq(s, 1, Len(s) - 1))
         IN  IF s[Len(s)].amount < r.amount THEN s[Len(s)] ELSE r

RECURSIVE FirstMaxBy(_)
\* max(s, key=amount): the first element of greatest amount (s non-empty)
FirstMaxBy(s) ==
    IF Len(s) = 1 THEN s[1]
    ELSE LET r == FirstMaxBy(SubSeq(s, 1, Len(s) - 1))
         IN  IF s[Len(s)].amount > r.amount THEN s[Len(s)] ELSE r

\* Insert t into a list sorted by amount ascending, after its equals (stable).
RECURSIVE InsertByAmount(_, _)
InsertByAmount(t, s) ==
    IF s = << >> THEN <<t>>
    ELSE IF t.amount < Head(s).amount THEN <<t>> \o s
    ELSE <<Head(s)>> \o InsertByAmount(t, Tail(s))

RECURSIVE SortedByAmount(_)
\* sorted(s, key=amount)
SortedByAmount(s) ==
    IF s = << >> THEN << >>
    ELSE InsertByAmount(s[Len(s)], SortedByAmount(SubSeq(s, 1, Len(s) - 1)))

\* Insert t into a list sorted by date descending, after its equals (stable).
RECURSIVE InsertByDateDesc(_, _)
InsertByDateDesc(t, s) ==
    IF s = << >> THEN <<t>>
    ELSE IF ~DateLeq(t.purchase_date, Head(s).purchase_date) THEN <<t>> \o s
    ELSE <<Head(s)>> \o InsertByDateDesc(t, Tail(s))

RECURSIVE SortedByDateDesc(_)
\* sorted(s, key=purchase_date, reverse=True): equal keys keep their order
SortedByDateDesc(s) ==
    IF s = << >> THEN << >>
    ELSE InsertByDateDesc(s[Len(s)], SortedByDateDesc(SubSeq(s, 1, Len(s) - 1)))

(***************************************************************************)
(* execute_structured_query (backend/app.py)                               *)
(***************************************************************************)

StructuredIntents ==
    {"find_maximum", "find_minimum", "calculate_total", "calculate_average",
     "count", "find_recent"}

\* The default of filters.get('limit', 5).
DefaultLimit == 5

\* Size of the top_5 list.
TopN == 5

\* What the call yields when an exception leaves it.
Raised(i) ==
    [raised |-> TRUE, result |-> [kind |-> "None"], filtered_transactions |-> << >>,
     expenses |-> << >>, verification |-> [kind |-> "raised", n |-> 0],
     intent |-> i, top_5 |-> << >>, recent_transactions |-> << >>]

\* The temporal step raises TypeError when a record's purchase_date is compared
\* with a start_date of None; with no record left nothing is compared.
TemporalRaises(temporal, list) ==
    /\ TruthyTemporal(temporal)
    /\ temporal.date = Absent
    /\ ~(temporal.month # Absent /\ temporal.year # Absent)
    /\ temporal.start_date = NoneV
    /\ list # << >>

\* The three branches of the temporal filter, in the order the code tests them.
ApplyTemporal(temporal, list) ==
    IF ~TruthyTemporal(temporal) THEN list
    ELSE IF temporal.date # Absent
    THEN SelectSeq(list, LAMBDA t : Some(t.purchase_date) = temporal.date)
    ELSE IF temporal.month # Absent /\ temporal.year # Absent
    THEN SelectSeq(list, LAMBDA t : MatchesMonthYear(t.purchase_date, temporal.month, temporal.year))
    ELSE IF temporal.start_date # Absent
    THEN LET fromStart == SelectSeq(list, LAMBDA t : DateLeq(temporal.start_date.v, t.purchase_date))
         IN  IF TruthyOpt(temporal.end_date)
             THEN SelectSeq(fromStart, LAMBDA t : DateLeq(t.purchase_date, temporal.end_date.v))
             ELSE fromStart
    ELSE list

\* Mutant of ApplyMerchants: the comparison is case-sensitive.
ApplyMerchantsCaseSensitive(merchants, list) ==
    IF merchants = << >> THEN list
    ELSE SelectSeq(list, LAMBDA t :
            \E k \in 1..Len(merchants) : Contains(merchants[k], t.description))

\* any(m.lower() in t['description'].lower() for m in merchants), when merchants
ApplyMerchants(merchants, list) ==
    IF merchants = << >> THEN list
    ELSE SelectSeq(list, LAMBDA t :
            \E k \in 1..Len(merchants) : Contains(Lower(merchants[k]), Lower(t.description)))

\* any(c.lower() in t['category'].lower() for c in categories), when categories
ApplyCategories(categories, list) ==
    IF categories = << >> THEN list
    ELSE SelectSeq(list, LAMBDA t :
            \E k \in 1..Len(categories) : Contains(Lower(categories[k]), Lower(t.category)))

\* expenses_only = [t for t in filtered if float(t['amount']) < 0]
ExpensesOnly(list) == SelectSeq(list, LAMBDA t : t.amount < 0)

\* The records the max/min/total/average operations run on: the expenses, or
\* every filtered record when there is no expense.
OperandSet(intent, filtered) ==
    IF ExpensesOnly(filtered) = << >>
       /\ intent \in {"find_maximum", "find_minimum", "calculate_total", "calculate_average"}
    THEN filtered
    ELSE ExpensesOnly(filtered)

\* limit = filters.get('limit', 5); sorted_txns[:limit]
TakeLimit(limit, sorted) ==
    IF limit = Absent THEN Prefix(sorted, DefaultLimit)
    ELSE IF limit = NoneV THEN sorted
    ELSE Prefix(sorted, limit.v)

RECURSIVE Gcd(_, _)
Gcd(a, b) == IF b = 0 THEN a ELSE Gcd(b, a % b)

\* total / n, kept exact: the quotient as a fraction in lowest terms
Quotient(total, n) == <<total \div Gcd(total, n), n \div Gcd(total, n)>>

\* The operation chosen by the intent, over a non-empty operand set.
Operate(intent, filters, filtered, operands, base) ==
    IF intent = "find_maximum"
    THEN [base EXCEPT !.result = [kind |-> "txn", txn |-> FirstMinBy(operands)],
                      !.verification = [kind |-> "maximum", n |-> Len(operands)],
                      !.top_5 = Prefix(SortedByAmount(operands), TopN)]
    ELSE IF intent = "find_minimum"
    THEN [base EXCEPT !.result = [kind |-> "txn", txn |-> FirstMaxBy(operands)],
                      !.verification = [kind |-> "minimum", n |-> Len(operands)]]
    ELSE IF intent = "calculate_total"
    THEN [base EXCEPT !.result = [kind |-> "total", total |-> SumAbs(operands),
                                  count |-> Len(operands)],
                      !.verification = [kind |-> "summed", n |-> Len(operands)]]
    ELSE IF intent = "calculate_average"
    THEN [base EXCEPT !.result = [kind |-> "average",
                                  average |-> Quotient(SumAbs(operands), Len(operands)),
                                  count |-> Len(operands), total |-> SumAbs(operands)],
                      !.verification = [kind |-> "average", n |-> Len(operands)]]
    ELSE IF intent = "count"
    THEN [base EXCEPT !.result = [kind |-> "count", count |-> Len(filtered)],
                      !.verification = [kind |-> "found", n |-> Len(filtered)]]
    ELSE IF intent = "find_recent"
    THEN LET recent == TakeLimit(filters.limit, SortedByDateDesc(filtered))
         IN  [base EXCEPT !.result = [kind |-> "recent", transactions |-> recent,
                                      count |-> Len(recent)],
                          !.verification = [kind |-> "recent", n |-> Len(recent)],
                          !.recent_transactions = recent]
    ELSE base

\* Mutant of ExecuteStructuredQuery: the early return on an empty operand set
\* is missing, so min() and max() are handed an empty list and raise.
ExecuteWithoutEmptyReturn(classification, all_transactions) ==
    LET intent   == classification.intent
        filters  == classification.filters
        timed    == ApplyTemporal(filters.temporal, all_transactions)
        filtered == ApplyCategories(filters.categories, ApplyMerchants(filters.merchants, timed))
        operands == OperandSet(intent, filtered)
        base     == [raised |-> FALSE, result |-> [kind |-> "None"],
                     filtered_transactions |-> filtered,
                     expenses |-> ExpensesOnly(filtered),
                     verification |-> [kind |-> "checked", n |-> Len(filtered)],
                     intent |-> intent, top_5 |-> << >>, recent_transactions |-> << >>]
    IN  IF TemporalRaises(filters.temporal, all_transactions) THEN Raised(intent)
        ELSE IF operands = << >> /\ intent \in {"find_maximum", "find_minimum"}
        THEN Raised(intent)
        ELSE IF operands = << >> THEN base
        ELSE Operate(intent, filters, filtered, operands, base)

\* execute_structured_query(classification, all_transactions); None and []
\* are both the empty list.
ExecuteStructuredQuery(classification, all_transactions) ==
    LET intent   == classification.intent
        filters  == classification.filters
        timed    == ApplyTemporal(filters.temporal, all_transactions)
        filtered == ApplyCategories(filters.categories, ApplyMerchants(filters.merchants, timed))
        operands == OperandSet(intent, filtered)
        base     == [raised |-> FALSE, result |-> [kind |-> "None"],
                     filtered_transactions |-> filtered,
                     expenses |-> ExpensesOnly(filtered),
                     verification |-> [kind |-> "checked", n |-> Len(filtered)],
                     intent |-> intent, top_5 |-> << >>, recent_transactions |-> << >>]
    IN  IF TemporalRaises(filters.temporal, all_transactions) THEN Raised(intent)
        ELSE IF operands = << >>
        THEN [base EXCEPT !.verification = [kind |-> "no_match", n |-> 0]]
        ELSE Operate(intent, filters, filtered, operands, base)

(***************************************************************************)
(* The transaction records the model draws from.  A record carries the     *)
(* keys the engine reads: _id, description, amount (negative = expense),   *)
(* purchase_date, category, and the `deleted` key that the updates overlay *)
(* may add.                                                                *)
(***************************************************************************)

\* Number of distinct transaction records.
PoolSize == 6

RecordTable ==
    <<
       [description |-> <<"S","t","a","r","b","u","c","k","s"," ","C","o","f","f","e","e">>,
        amount |-> 0 - 5, purchase_date |-> <<2025, 1, 5>>,
        category |-> <<"F","o","o","d"," ","&"," ","D","r","i","n","k">>],
       [description |-> <<"U","b","e","r">>,
        amount |-> 0 - 5, purchase_date |-> <<2025, 1, 12>>,
        category |-> <<"T","r","a","n","s","p","o","r","t">>],
       [description |-> <<"P","a","y","r","o","l","l"," ","D","e","p","o","s","i","t">>,
        amount |-> 7, purchase_date |-> <<2025, 1, 12>>,
        category |-> <<"I","n","c","o","m","e">>],
       [description |-> <<"S","T","A","R","B","U","C","K","S">>,
        amount |-> 0 - 2, purchase_date |-> <<2024, 12, 31>>,
        category |-> <<"F","o","o","d"," ","&"," ","D","r","i","n","k">>],
       [description |-> <<"U","b","e","r"," ","R","e","f","u","n","d">>,
        amount |-> 3, purchase_date |-> <<2025, 2, 1>>,
        category |-> <<"I","n","c","o","m","e">>],
       [description |-> <<"S","t","a","r","b","u","c","k","s"," ","C","o","f","f","e","e">>,
        amount |-> 0 - 9, purchase_date |-> <<2025, 1, 5>>,
        category |-> <<"F","o","o","d"," ","&"," ","D","r","i","n","k">>],
       [description |-> <<"A","T","M"," ","W","i","t","h","d","r","a","w","a","l">>,
        amount |-> 0, purchase_date |-> <<2025, 2, 1>>,
        category |-> <<"O","t","h","e","r">>],
       [description |-> <<"N","e","t","f","l","i","x">>,
        amount |-> 0 - 2, purchase_date |-> <<2024, 12, 31>>,
        category |-> <<"E","n","t","e","r","t","a","i","n","m","e","n","t">>]
    >>

Rec(i) ==
    LET row == RecordTable[((i - 1) % Len(RecordTable)) + 1]
    IN  [id |-> i, description |-> row.description, amount |-> row.amount,
         purchase_date |-> row.purchase_date, category |-> row.category,
         deleted |-> FALSE]

\* The store in generation order.
StoreOrder == [i \in 1..PoolSize |-> Rec(i)]

Reverse(s) == [i \in 1..Len(s) |-> s[Len(s) + 1 - i]]

\* The sub-list of s made of the positions in keep, in the order of s.
SubList(s, keep) == SelectSeq(s, LAMBDA t : t.id \in keep)

\* Every sub-list of the store, in generation order and in reverse order.
TxnLists ==
    {SubList(StoreOrder, keep) : keep \in SUBSET (1..PoolSize)}
        \cup {SubList(Reverse(StoreOrder), keep) : keep \in SUBSET (1..PoolSize)}

TemporalChoices ==
    {NoTemporal,
     ExactDate(<<2025, 1, 12>>),
     MonthYear(1, 2025),
     RangeFrom(<<2025, 1, 5>>),
     RangeBetween(<<2025, 1, 1>>, <<2025, 1, 12>>),
     [NoTemporal EXCEPT !.start_date = NoneV, !.end_date = NoneV]}

MerchantChoices == {<< >>, <<<<"S","t","a","r","b","u","c","k","s">>, <<"p","a","y","r","o","l","l">>>>}

CategoryChoices == {<< >>, <<<<"i","n","c","o","m","e">>>>}

LimitChoices == {Absent, NoneV, Some(2)}

\* The classifications handed to the executor: the limit key matters to
\* find_recent only.
Plans ==
    {[intent |-> i, filters |-> [temporal |-> t, merchants |-> m, categories |-> c, limit |-> l]] :
        i \in StructuredIntents, t \in TemporalChoices, m \in MerchantChoices,
        c \in CategoryChoices, l \in LimitChoices}

NotRun == [raised |-> FALSE, result |-> [kind |-> "None"], filtered_transactions |-> << >>,
           expenses |-> << >>, verification |-> [kind |-> "not_run", n |-> 0],
           intent |-> "general", top_5 |-> << >>, recent_transactions |-> << >>]

(***************************************************************************)
(* Text patterns of the classifier (backend/rag_service.py).  The regular  *)
(* expressions are computed the way re.search does: the leftmost position  *)
(* at which the pattern matches, with greedy repetitions.                  *)
(***************************************************************************)

Digits == <<"0","1","2","3","4","5","6","7","8","9">>

\* \d
IsDigit(c) == \E i \in 1..Len(Digits) : Digits[i] = c

DigitValue(c) == (CHOOSE i \in 1..Len(Digits) : Digits[i] = c) - 1

\* the character at position i, or "" past either end
CharAt(s, i) == IF i \in 1..Len(s) THEN s[i] ELSE ""

RECURSIVE IntOf(_, _, _)
\* int(s[i..j]) for a run of digits
IntOf(s, i, j) == IF j < i THEN 0 ELSE IntOf(s, i, j - 1) * 10 + DigitValue(s[j])

RECURSIVE DigitsEnd(_, _)
\* \d+ from position i: the position of the last digit of the run
DigitsEnd(s, i) == IF IsDigit(CharAt(s, i + 1)) THEN DigitsEnd(s, i + 1) ELSE i

RECURSIVE SkipSpaces(_, _)
\* \s* from position i: the first position after the white space
SkipSpaces(s, i) == IF CharAt(s, i) = " " THEN SkipSpaces(s, i + 1) ELSE i

\* the text pat stands in s at position i
StartsAt(pat, s, i) ==
    /\ i >= 1
    /\ i + Len(pat) - 1 <= Len(s)
    /\ \A j \in 1..Len(pat) : s[i + j - 1] = pat[j]

MinOf(S) == CHOOSE x \in S : \A y \in S : x <= y

RECURSIVE LStrip(_)
LStrip(s) == IF s # << >> /\ Head(s) = " " THEN LStrip(Tail(s)) ELSE s

RECURSIVE RStrip(_)
RStrip(s) == IF s # << >> /\ s[Len(s)] = " " THEN RStrip(SubSeq(s, 1, Len(s) - 1)) ELSE s

\* str.strip()
Strip(s) == RStrip(LStrip(s))

RECURSIVE WordCount(_, _)
\* len(s.split()) counted from position i: the maximal runs of non-space characters
WordCount(s, i) ==
    IF i > Len(s) THEN 0
    ELSE (IF s[i] # " " /\ CharAt(s, i - 1) \in {"", " "} THEN 1 ELSE 0) + WordCount(s, i + 1)

\* rag_service.py: recent_keywords
recent_keywords ==
    <<<<"m","o","s","t"," ","r","e","c","e","n","t">>, <<"l","a","t","e","s","t">>,
      <<"n","e","w","e","s","t">>, <<"l","a","s","t"," ","p","u","r","c","h","a","s","e">>,
      <<"r","e","c","e","n","t"," ","p","u","r","c","h","a","s","e">>>>

\* max_keywords
max_keywords ==
    <<<<"b","i","g","g","e","s","t">>, <<"l","a","r","g","e","s","t">>,
      <<"m","o","s","t"," ","e","x","p","e","n","s","i","v","e">>, <<"h","i","g","h","e","s","t">>,
      <<"m","a","x","i","m","u","m">>, <<"m","a","x">>>>

\* min_keywords
min_keywords ==
    <<<<"s","m","a","l","l","e","s","t">>, <<"c","h","e","a","p","e","s","t">>, <<"l","o","w","e","s","t">>,
      <<"m","i","n","i","m","u","m">>, <<"m","i","n">>,
      <<"l","e","a","s","t"," ","e","x","p","e","n","s","i","v","e">>>>

\* sum_keywords
sum_keywords ==
    <<<<"t","o","t","a","l">>, <<"s","u","m">>,
      <<"h","o","w"," ","m","u","c","h"," ","d","i","d"," ","i"," ","s","p","e","n","d">>,
      <<"h","o","w"," ","m","u","c","h"," ","h","a","v","e"," ","i"," ","s","p","e","n","t">>,
      <<"h","o","w"," ","m","u","c","h"," ","s","p","e","n","t">>, <<"a","d","d"," ","u","p">>,
      <<"a","l","t","o","g","e","t","h","e","r">>>>

\* avg_keywords
avg_keywords ==
    <<<<"a","v","e","r","a","g","e">>, <<"a","v","g">>, <<"m","e","a","n">>,
      <<"t","y","p","i","c","a","l","l","y"," ","s","p","e","n","d">>,
      <<"u","s","u","a","l","l","y"," ","s","p","e","n","d">>, <<"o","n"," ","a","v","e","r","a","g","e">>>>

\* count_keywords
count_keywords ==
    <<<<"h","o","w"," ","m","a","n","y">>, <<"h","o","w"," ","o","f","t","e","n">>,
      <<"n","u","m","b","e","r"," ","o","f">>, <<"c","o","u","n","t">>,
      <<"t","i","m","e","s"," ","d","i","d"," ","i">>>>

\* list_keywords
list_keywords ==
    <<<<"s","h","o","w"," ","m","e">>, <<"l","i","s","t">>,
      <<"w","h","a","t"," ","d","i","d"," ","i"," ","b","u","y">>,
      <<"w","h","a","t"," ","w","e","r","e"," ","m","y">>, <<"d","i","s","p","l","a","y">>>>

\* month_names, in the order of the dict
month_names ==
    <<<<"j","a","n","u","a","r","y">>, <<"f","e","b","r","u","a","r","y">>, <<"m","a","r","c","h">>,
      <<"a","p","r","i","l">>, <<"m","a","y">>, <<"j","u","n","e">>, <<"j","u","l","y">>,
      <<"a","u","g","u","s","t">>, <<"s","e","p","t","e","m","b","e","r">>, <<"o","c","t","o","b","e","r">>,
      <<"n","o","v","e","m","b","e","r">>, <<"d","e","c","e","m","b","e","r">>, <<"j","a","n">>,
      <<"f","e","b">>, <<"m","a","r">>, <<"a","p","r">>, <<"j","u","n">>, <<"j","u","l">>, <<"a","u","g">>,
      <<"s","e","p">>, <<"o","c","t">>, <<"n","o","v">>, <<"d","e","c">>>>

\* month_names values, position for position
month_numbers == <<1, 2, 3, 4, 5, 6, 7, 8, 9, 10, 11, 12, 1, 2, 3, 4, 6, 7, 8, 9, 10, 11, 12>>

\* day_names
day_names ==
    <<<<"m","o","n","d","a","y">>, <<"t","u","e","s","d","a","y">>, <<"w","e","d","n","e","s","d","a","y">>,
      <<"t","h","u","r","s","d","a","y">>, <<"f","r","i","d","a","y">>, <<"s","a","t","u","r","d","a","y">>,
      <<"s","u","n","d","a","y">>>>

\* needs_llm_temporal_parsing: complex_patterns
temporal_complex_patterns ==
    <<<<"a","r","o","u","n","d"," ","t","h","e"," ","h","o","l","i","d","a","y","s">>,
      <<"h","o","l","i","d","a","y"," ","s","e","a","s","o","n">>,
      <<"d","u","r","i","n","g"," ","t","h","e"," ","h","o","l","i","d","a","y","s">>, <<"a"," ","f","e","w">>,
      <<"a"," ","c","o","u","p","l","e">>, <<"s","e","v","e","r","a","l">>,
      <<"s","o","m","e"," ","t","i","m","e">>, <<"a","r","o","u","n","d">>, <<"a","b","o","u","t">>,
      <<"a","p","p","r","o","x","i","m","a","t","e","l","y">>,
      <<"f","i","r","s","t"," ","w","e","e","k"," ","o","f">>,
      <<"s","e","c","o","n","d"," ","w","e","e","k"," ","o","f">>,
      <<"l","a","s","t"," ","w","e","e","k"," ","o","f">>, <<"m","i","d","d","l","e"," ","o","f">>,
      <<"b","e","g","i","n","n","i","n","g"," ","o","f">>, <<"e","n","d"," ","o","f">>,
      <<"s","t","a","r","t"," ","o","f">>, <<"t","a","x"," ","s","e","a","s","o","n">>,
      <<"t","a","x"," ","t","i","m","e">>, <<"b","a","c","k"," ","t","o"," ","s","c","h","o","o","l">>,
      <<"s","u","m","m","e","r">>, <<"w","i","n","t","e","r">>, <<"s","p","r","i","n","g">>,
      <<"f","a","l","l">>, <<"a","u","t","u","m","n">>,
      <<"b","e","f","o","r","e"," ","c","h","r","i","s","t","m","a","s">>,
      <<"a","f","t","e","r"," ","c","h","r","i","s","t","m","a","s">>, <<"n","e","w"," ","y","e","a","r">>,
      <<"b","l","a","c","k"," ","f","r","i","d","a","y">>, <<"c","y","b","e","r"," ","m","o","n","d","a","y">>,
      <<"t","h","a","n","k","s","g","i","v","i","n","g">>, <<"b","r","e","a","k">>,
      <<"r","i","g","h","t"," ","a","f","t","e","r">>, <<"r","i","g","h","t"," ","b","e","f","o","r","e">>,
      <<"s","h","o","r","t","l","y"," ","a","f","t","e","r">>,
      <<"s","h","o","r","t","l","y"," ","b","e","f","o","r","e">>>>

\* known_merchants
known_merchants ==
    <<<<"s","t","a","r","b","u","c","k","s">>, <<"a","m","a","z","o","n">>, <<"w","a","l","m","a","r","t">>,
      <<"t","a","r","g","e","t">>, <<"c","h","i","p","o","t","l","e">>,
      <<"m","c","d","o","n","a","l","d","s">>, <<"a","p","p","l","e">>, <<"n","e","t","f","l","i","x">>,
      <<"s","p","o","t","i","f","y">>, <<"u","b","e","r">>, <<"d","u","n","k","i","n">>,
      <<"c","o","f","f","e","e">>, <<"p","e","e","t","s">>, <<"w","h","o","l","e"," ","f","o","o","d","s">>,
      <<"c","o","s","t","c","o">>>>

\* _classify_financial_query_rule_based: merchant_groups keys
rule_group_names ==
    <<<<"c","o","f","f","e","e"," ","s","h","o","p">>, <<"f","a","s","t"," ","f","o","o","d">>,
      <<"g","r","o","c","e","r","y"," ","s","t","o","r","e">>>>

\* merchant_groups values, position for position
rule_group_merchants ==
    <<<<<<"s","t","a","r","b","u","c","k","s">>, <<"d","u","n","k","i","n">>, <<"p","e","e","t","s">>, <<"c","o","f","f","e","e">>, <<"c","a","f","e">>, <<"e","s","p","r","e","s","s","o">>>>,
      <<<<"m","c","d","o","n","a","l","d","s">>, <<"w","e","n","d","y","s">>, <<"b","u","r","g","e","r"," ","k","i","n","g">>, <<"t","a","c","o"," ","b","e","l","l">>, <<"c","h","i","p","o","t","l","e">>, <<"s","u","b","w","a","y">>>>,
      <<<<"w","h","o","l","e"," ","f","o","o","d","s">>, <<"t","r","a","d","e","r"," ","j","o","e","s">>, <<"s","a","f","e","w","a","y">>, <<"k","r","o","g","e","r">>, <<"c","o","s","t","c","o">>, <<"w","a","l","m","a","r","t">>>>>>

\* categories keys
category_names ==
    <<<<"f","o","o","d">>, <<"g","r","o","c","e","r","i","e","s">>, <<"s","h","o","p","p","i","n","g">>,
      <<"t","r","a","n","s","p","o","r","t">>, <<"e","n","t","e","r","t","a","i","n","m","e","n","t">>,
      <<"b","i","l","l","s">>, <<"h","e","a","l","t","h","c","a","r","e">>>>

\* categories values, position for position
category_keywords ==
    <<<<<<"f","o","o","d">>, <<"d","i","n","i","n","g">>, <<"r","e","s","t","a","u","r","a","n","t">>, <<"e","a","t","i","n","g"," ","o","u","t">>, <<"t","a","k","e","o","u","t">>, <<"c","o","f","f","e","e"," ","s","h","o","p">>, <<"c","a","f","e">>>>,
      <<<<"g","r","o","c","e","r","y">>, <<"g","r","o","c","e","r","i","e","s">>, <<"s","u","p","e","r","m","a","r","k","e","t">>>>,
      <<<<"s","h","o","p","p","i","n","g">>, <<"r","e","t","a","i","l">>, <<"c","l","o","t","h","e","s">>, <<"c","l","o","t","h","i","n","g">>>>,
      <<<<"t","r","a","n","s","p","o","r","t">>, <<"t","r","a","n","s","p","o","r","t","a","t","i","o","n">>, <<"g","a","s">>, <<"u","b","e","r">>, <<"l","y","f","t">>>>,
      <<<<"e","n","t","e","r","t","a","i","n","m","e","n","t">>, <<"m","o","v","i","e","s">>, <<"s","t","r","e","a","m","i","n","g">>, <<"g","a","m","e","s">>>>,
      <<<<"b","i","l","l","s">>, <<"u","t","i","l","i","t","i","e","s">>, <<"e","l","e","c","t","r","i","c">>, <<"w","a","t","e","r">>, <<"i","n","t","e","r","n","e","t">>>>,
      <<<<"h","e","a","l","t","h">>, <<"m","e","d","i","c","a","l">>, <<"p","h","a","r","m","a","c","y">>, <<"d","o","c","t","o","r">>>>>>

\* _needs_llm_classification: complex_patterns
llm_complex_patterns ==
    <<<<"s","h","o","u","l","d"," ","i">>, <<"i","s"," ","i","t"," ","w","o","r","t","h">>,
      <<"d","o"," ","y","o","u"," ","t","h","i","n","k">>,
      <<"w","o","u","l","d"," ","y","o","u"," ","r","e","c","o","m","m","e","n","d">>,
      <<"c","o","m","p","a","r","e">>, <<"b","e","t","t","e","r">>, <<"w","o","r","t","h"," ","i","t">>,
      <<"g","o","o","d"," ","i","d","e","a">>, <<"w","h","a","t"," ","i","s">>,
      <<"w","h","a","t"," ","a","r","e">>, <<"h","o","w"," ","d","o">>, <<"e","x","p","l","a","i","n">>,
      <<"t","e","l","l"," ","m","e"," ","a","b","o","u","t">>, <<"i","t">>, <<"t","h","e","y">>,
      <<"t","h","a","t">>, <<"t","h","i","s">>, <<"t","h","o","s","e">>,
      <<"a","r","o","u","n","d"," ","t","h","e"," ","h","o","l","i","d","a","y","s">>,
      <<"h","o","l","i","d","a","y"," ","s","e","a","s","o","n">>, <<"t","a","x"," ","s","e","a","s","o","n">>,
      <<"s","u","m","m","e","r">>, <<"w","i","n","t","e","r">>, <<"a","d","v","i","c","e">>,
      <<"s","u","g","g","e","s","t">>, <<"r","e","c","o","m","m","e","n","d">>,
      <<"h","e","l","p"," ","m","e">>, <<"t","i","p","s">>, <<" ","a","n","d"," ">>, <<" ","o","r"," ">>,
      <<" ","b","u","t"," ">>, <<" ","v","e","r","s","u","s"," ">>, <<" ","v","s"," ">>>>

\* _needs_llm_classification: financial keywords
financial_keywords ==
    <<<<"s","p","e","n","d">>, <<"s","p","e","n","t">>, <<"c","o","s","t">>, <<"p","a","y">>,
      <<"p","a","i","d">>, <<"b","u","y">>, <<"b","o","u","g","h","t">>, <<"e","x","p","e","n","s","e">>,
      <<"i","n","c","o","m","e">>, <<"b","u","d","g","e","t">>, <<"m","o","n","e","y">>,
      <<"d","o","l","l","a","r">>, <<"$">>, <<"t","r","a","n","s","a","c","t","i","o","n">>,
      <<"p","u","r","c","h","a","s","e">>, <<"b","i","l","l">>,
      <<"s","u","b","s","c","r","i","p","t","i","o","n">>>>

\* _expand_merchant_groups: merchant_groups keys
expand_group_names ==
    <<<<"c","o","f","f","e","e"," ","s","h","o","p">>, <<"c","o","f","f","e","e"," ","s","h","o","p","s">>,
      <<"f","a","s","t"," ","f","o","o","d">>, <<"g","r","o","c","e","r","y"," ","s","t","o","r","e">>,
      <<"g","r","o","c","e","r","y"," ","s","t","o","r","e","s">>, <<"s","t","r","e","a","m","i","n","g">>,
      <<"r","i","d","e"," ","s","h","a","r","e">>>>

\* merchant_groups values, position for position
expand_group_merchants ==
    <<<<<<"s","t","a","r","b","u","c","k","s">>, <<"d","u","n","k","i","n">>, <<"p","e","e","t","s">>, <<"c","o","f","f","e","e">>, <<"c","a","f","e">>, <<"e","s","p","r","e","s","s","o">>, <<"d","u","t","c","h"," ","b","r","o","s">>>>,
      <<<<"s","t","a","r","b","u","c","k","s">>, <<"d","u","n","k","i","n">>, <<"p","e","e","t","s">>, <<"c","o","f","f","e","e">>, <<"c","a","f","e">>, <<"e","s","p","r","e","s","s","o">>, <<"d","u","t","c","h"," ","b","r","o","s">>>>,
      <<<<"m","c","d","o","n","a","l","d","s">>, <<"w","e","n","d","y","s">>, <<"b","u","r","g","e","r"," ","k","i","n","g">>, <<"t","a","c","o"," ","b","e","l","l">>, <<"c","h","i","p","o","t","l","e">>, <<"s","u","b","w","a","y">>, <<"c","h","i","c","k","-","f","i","l","-","a">>>>,
      <<<<"w","h","o","l","e"," ","f","o","o","d","s">>, <<"t","r","a","d","e","r"," ","j","o","e","s">>, <<"s","a","f","e","w","a","y">>, <<"k","r","o","g","e","r">>, <<"c","o","s","t","c","o">>, <<"w","a","l","m","a","r","t">>, <<"t","a","r","g","e","t">>>>,
      <<<<"w","h","o","l","e"," ","f","o","o","d","s">>, <<"t","r","a","d","e","r"," ","j","o","e","s">>, <<"s","a","f","e","w","a","y">>, <<"k","r","o","g","e","r">>, <<"c","o","s","t","c","o">>, <<"w","a","l","m","a","r","t">>, <<"t","a","r","g","e","t">>>>,
      <<<<"n","e","t","f","l","i","x">>, <<"s","p","o","t","i","f","y">>, <<"h","u","l","u">>, <<"d","i","s","n","e","y">>, <<"h","b","o">>, <<"a","p","p","l","e"," ","t","v">>, <<"a","m","a","z","o","n"," ","p","r","i","m","e">>>>,
      <<<<"u","b","e","r">>, <<"l","y","f","t">>>>>>

\* the nouns of the limit pattern (\d+)\s*(purchase|transaction|expense|buy)
limit_nouns ==
    <<<<"p","u","r","c","h","a","s","e">>, <<"t","r","a","n","s","a","c","t","i","o","n">>,
      <<"e","x","p","e","n","s","e">>, <<"b","u","y">>>>

\* the leads of the limit pattern (?:recent|last|latest)\s*(\d+)
limit_leads ==
    <<<<"r","e","c","e","n","t">>, <<"l","a","s","t">>, <<"l","a","t","e","s","t">>>>

\* chat_with_rag: semantic_list_triggers
semantic_list_triggers ==
    <<<<"w","h","a","t">>, <<"w","h","i","c","h">>, <<"s","h","o","w"," ","m","e">>, <<"l","i","s","t">>,
      <<"w","h","e","r","e"," ","h","a","v","e"," ","i">>,
      <<"h","a","v","e"," ","i"," ","b","o","u","g","h","t">>>>

\* re.search(r'(\d+)\s*(purchase|transaction|expense|buy)', s): group 1, or no match
CountMatch(s) ==
    LET starts == {i \in 1..Len(s) :
                     /\ IsDigit(s[i])
                     /\ \E k \in 1..Len(limit_nouns) :
                           StartsAt(limit_nouns[k], s, SkipSpaces(s, DigitsEnd(s, i) + 1))}
    IN  IF starts = {} THEN Absent
        ELSE Some(IntOf(s, MinOf(starts), DigitsEnd(s, MinOf(starts))))

\* re.search(r'(?:recent|last|latest)\s*(\d+)', s): group 1, or no match
CountMatch2(s) ==
    LET digitsFrom(i, k) == SkipSpaces(s, i + Len(limit_leads[k]))
        hit(i, k) == StartsAt(limit_leads[k], s, i) /\ IsDigit(CharAt(s, digitsFrom(i, k)))
        starts == {i \in 1..Len(s) : \E k \in 1..Len(limit_leads) : hit(i, k)}
    IN  IF starts = {} THEN Absent
        ELSE LET i == MinOf(starts)
                 k == CHOOSE x \in 1..Len(limit_leads) : hit(i, x)
             IN  Some(IntOf(s, digitsFrom(i, k), DigitsEnd(s, digitsFrom(i, k))))

\* re.search(r'20\d{2}', s): the matched year, or no match
YearMatch(s) ==
    LET starts == {i \in 1..Len(s) :
                     /\ StartsAt(<<"2","0">>, s, i)
                     /\ IsDigit(CharAt(s, i + 2))
                     /\ IsDigit(CharAt(s, i + 3))}
    IN  IF starts = {} THEN Absent ELSE Some(IntOf(s, MinOf(starts), MinOf(starts) + 3))

\* re.search(r'last (\d+) <unit>s?', s): group 1, or no match
LastN(unit, s) ==
    LET lead == <<"l","a","s","t"," ">>
        starts == {i \in 1..Len(s) :
                     /\ StartsAt(lead, s, i)
                     /\ IsDigit(CharAt(s, i + 5))
                     /\ StartsAt(<<" ">> \o unit, s, DigitsEnd(s, i + 5) + 1)}
    IN  IF starts = {} THEN Absent
        ELSE Some(IntOf(s, MinOf(starts) + 5, DigitsEnd(s, MinOf(starts) + 5)))

IsDateSep(c) == c \in {"/", "-"}

\* re.search(r'(\d{1,2})[/-](\d{1,2})(?:[/-](\d{2,4}))?', s): the three groups
\* (group 3 may be missing), or no match
DateMatch(s) ==
    LET two(i) == /\ IsDigit(CharAt(s, i)) /\ IsDigit(CharAt(s, i + 1))
                  /\ IsDateSep(CharAt(s, i + 2)) /\ IsDigit(CharAt(s, i + 3))
        one(i) == /\ IsDigit(CharAt(s, i)) /\ IsDateSep(CharAt(s, i + 1))
                  /\ IsDigit(CharAt(s, i + 2))
        starts == {i \in 1..Len(s) : two(i) \/ one(i)}
    IN  IF starts = {} THEN Absent
        ELSE LET i  == MinOf(starts)
                 e1 == IF two(i) THEN i + 1 ELSE i
                 j  == e1 + 2
                 e2 == IF IsDigit(CharAt(s, j + 1)) THEN j + 1 ELSE j
                 k  == e2 + 1
                 g3 == /\ IsDateSep(CharAt(s, k)) /\ IsDigit(CharAt(s, k + 1))
                       /\ IsDigit(CharAt(s, k + 2))
                 e3 == Min2(DigitsEnd(s, k + 1), k + 4)
             IN  Some([month |-> IntOf(s, i, e1), day |-> IntOf(s, j, e2),
                       year |-> IF g3 THEN Some(IntOf(s, k + 1, e3)) ELSE Absent])

\* datetime(year, month, day) does not raise ValueError
ValidDate(y, m, d) ==
    /\ y \in 1..9999
    /\ m \in 1..12
    /\ d \in 1..DaysInMonth(y, m)

(***************************************************************************)
(* extract_temporal_with_llm and its cache (backend/rag_service.py).  The  *)
(* cache is the dict _temporal_cache in insertion order: a sequence of     *)
(* entries [key, value, time].  Times are seconds.  The reply of the model *)
(* is an input: the call fails (or its text is not JSON), or it is a JSON  *)
(* object whose keys may be missing or null.                               *)
(***************************************************************************)

\* The cache's time to live, in seconds.
TemporalTtl == 3600

\* The cache is trimmed when it holds more entries than this.
TemporalCacheMax == 100

\* Number of entries a trim removes.
TemporalCacheTrim == 20

SecondsPerDay == 86400

\* timedelta.seconds: the seconds component, days left out
SecondsOf(delta) == delta % SecondsPerDay

FailedReply == [tag |-> "fail"]

\* needs_llm_temporal_parsing
NeedsLlmTemporalParsing(query_lower) == AnyIn(temporal_complex_patterns, query_lower)

CacheKey(query, current_dt) == <<Strip(Lower(query)), current_dt>>

CacheIndex(cache, key) == {i \in 1..Len(cache) : cache[i].key = key}

\* _temporal_cache[cache_key] = (temporal_filter, now): a known key keeps its place
CachePut(cache, key, value, time) ==
    IF CacheIndex(cache, key) = {}
    THEN Append(cache, [key |-> key, value |-> value, time |-> time])
    ELSE [i \in 1..Len(cache) |->
            IF cache[i].key = key THEN [key |-> key, value |-> value, time |-> time] ELSE cache[i]]

\* A trim that removes the n entries inserted first, whatever their times.
DropFirst(cache, n) == SubSeq(cache, n + 1, Len(cache))

RECURSIVE DropOldest(_, _)
\* del of the first n keys of sorted(keys, key=time): the sort is stable
DropOldest(cache, n) ==
    IF n = 0 \/ cache = << >> THEN cache
    ELSE LET i == MinOf({a \in 1..Len(cache) : \A b \in 1..Len(cache) : cache[a].time <= cache[b].time})
         IN  DropOldest(SubSeq(cache, 1, i - 1) \o SubSeq(cache, i + 1, Len(cache)), n - 1)

\* An extractor that remembers a failed call as "no temporal reference".
ExtractCachingFailure(query, current_dt, now_s, cache, replies) ==
    IF CacheIndex(cache, CacheKey(query, current_dt)) # {}
    THEN [value |-> cache[CHOOSE i \in CacheIndex(cache, CacheKey(query, current_dt)) : TRUE].value,
          cache |-> cache, replies |-> replies, calls |-> 0]
    ELSE [value |-> NoTemporal,
          cache |-> CachePut(cache, CacheKey(query, current_dt), NoTemporal, now_s),
          replies |-> Tail(replies), calls |-> 1]

\* extract_temporal_with_llm(query, current_dt) at time now, with the model's
\* replies still to come: the returned filter (NoTemporal is None), the cache
\* afterwards, the replies left and the number of calls made to the model.
ExtractTemporalWithLlm(query, current_dt, now_s, cache, replies) ==
    LET key == CacheKey(query, current_dt)
        at  == CacheIndex(cache, key)
        hit == at # {} /\ SecondsOf(now_s - cache[CHOOSE i \in at : TRUE].time) < TemporalTtl
        reply == Head(replies)
        temporal_filter ==
            IF reply.no_temporal THEN NoTemporal
            ELSE [NoTemporal EXCEPT
                    !.start_date = IF reply.start_date = Absent THEN NoneV ELSE reply.start_date,
                    !.end_date = IF reply.end_date = Absent THEN NoneV ELSE reply.end_date]
        put == CachePut(cache, key, temporal_filter, now_s)
    IN  IF hit
        THEN [value |-> cache[CHOOSE i \in at : TRUE].value, cache |-> cache,
              replies |-> replies, calls |-> 0]
        ELSE IF reply.tag = "fail"
        THEN [value |-> NoTemporal, cache |-> cache, replies |-> Tail(replies), calls |-> 1]
        ELSE [value |-> temporal_filter,
              cache |-> IF Len(put) > TemporalCacheMax THEN DropOldest(put, TemporalCacheTrim) ELSE put,
              replies |-> Tail(replies), calls |-> 1]

(***************************************************************************)
(* _classify_financial_query_rule_based                                    *)
(***************************************************************************)

\* The default limit of find_recent.
RecentDefault == 5

\* The intent keywords, tested in the order of the if/elif chain.
RuleIntent(query_lower) ==
    IF AnyIn(recent_keywords, query_lower) THEN "find_recent"
    ELSE IF AnyIn(max_keywords, query_lower) THEN "find_maximum"
    ELSE IF AnyIn(min_keywords, query_lower) THEN "find_minimum"
    ELSE IF AnyIn(sum_keywords, query_lower) THEN "calculate_total"
    ELSE IF AnyIn(avg_keywords, query_lower) THEN "calculate_average"
    ELSE IF AnyIn(count_keywords, query_lower) THEN "count"
    ELSE IF AnyIn(list_keywords, query_lower) THEN "list"
    ELSE "general"

\* filters['limit']: set for find_recent only
RuleLimit(query_lower) ==
    IF RuleIntent(query_lower) # "find_recent" THEN Absent
    ELSE IF CountMatch(query_lower) # Absent THEN CountMatch(query_lower)
    ELSE IF CountMatch2(query_lower) # Absent THEN CountMatch2(query_lower)
    ELSE Some(RecentDefault)

\* The first month name (in dict order) that occurs in the query.
MonthMention(query, query_lower, today_d) ==
    LET named == {k \in 1..Len(month_names) : Contains(month_names[k], query_lower)}
        year  == IF YearMatch(query) # Absent THEN YearMatch(query).v ELSE today_d[1]
    IN  IF named = {} THEN NoTemporal ELSE MonthYear(month_numbers[MinOf(named)], year)

\* today.replace(day=1) - timedelta(days=1)
LastOfPreviousMonth(today_d) == MinusDays(<<today_d[1], today_d[2], 1>>, 1)

\* The relative periods, in the order of the if/elif chain; a match replaces
\* the month mention.
RelativePeriod(query_lower, today_d, before) ==
    LET start_of_this_week == MinusDays(today_d, Weekday(today_d))
    IN  IF Contains(<<"t","h","i","s"," ","m","o","n","t","h">>, query_lower) THEN MonthYear(today_d[2], today_d[1])
        ELSE IF Contains(<<"l","a","s","t"," ","m","o","n","t","h">>, query_lower)
        THEN MonthYear(LastOfPreviousMonth(today_d)[2], LastOfPreviousMonth(today_d)[1])
        ELSE IF Contains(<<"l","a","s","t"," ","w","e","e","k">>, query_lower)
        THEN RangeBetween(MinusDays(start_of_this_week, 7), MinusDays(start_of_this_week, 1))
        ELSE IF Contains(<<"t","h","i","s"," ","w","e","e","k">>, query_lower) THEN RangeFrom(start_of_this_week)
        ELSE IF Contains(<<"t","o","d","a","y">>, query_lower) THEN ExactDate(today_d)
        ELSE IF Contains(<<"y","e","s","t","e","r","d","a","y">>, query_lower) THEN ExactDate(MinusDays(today_d, 1))
        ELSE IF Contains(<<"r","e","c","e","n","t","l","y">>, query_lower) \/ Contains(<<"r","e","c","e","n","t">>, query_lower)
        THEN RangeFrom(MinusDays(today_d, 7))
        ELSE IF Contains(<<"t","h","i","s"," ","y","e","a","r">>, query_lower) THEN RangeFrom(<<today_d[1], 1, 1>>)
        ELSE IF Contains(<<"l","a","s","t"," ","y","e","a","r">>, query_lower)
        THEN RangeBetween(<<today_d[1] - 1, 1, 1>>, <<today_d[1] - 1, 12, 31>>)
        ELSE before

\* "last N days/weeks/months": the three searches run one after the other, the
\* last one that matches wins.
LastNPeriod(query_lower, today_d, before) ==
    IF TruthyTemporal(before) THEN before
    ELSE IF LastN(<<"m","o","n","t","h">>, query_lower) # Absent
    THEN RangeFrom(MinusDays(today_d, LastN(<<"m","o","n","t","h">>, query_lower).v * 30))
    ELSE IF LastN(<<"w","e","e","k">>, query_lower) # Absent
    THEN RangeFrom(MinusDays(today_d, LastN(<<"w","e","e","k">>, query_lower).v * 7))
    ELSE IF LastN(<<"d","a","y">>, query_lower) # Absent
    THEN RangeFrom(MinusDays(today_d, LastN(<<"d","a","y">>, query_lower).v))
    ELSE before

\* "on <weekday>" / "last <weekday>": the most recent such day before today
WeekdayPeriod(query_lower, today_d, before) ==
    LET named == {i \in 1..Len(day_names) :
                    \/ Contains(<<"o","n"," ">> \o day_names[i], query_lower)
                    \/ Contains(<<"l","a","s","t"," ">> \o day_names[i], query_lower)}
        ago   == (Weekday(today_d) - (MinOf(named) - 1)) % 7
    IN  IF TruthyTemporal(before) \/ named = {} THEN before
        ELSE ExactDate(MinusDays(today_d, IF ago = 0 THEN 7 ELSE ago))

\* The date of a match m of the date pattern: month, day and optional year; an
\* impossible date is skipped.
DateOfMatch(m, today_d, before) ==
    LET y0   == IF m.v.year # Absent THEN m.v.year.v ELSE today_d[1]
        year == IF y0 < 100 THEN y0 + 2000 ELSE y0
    IN  IF m = Absent \/ TruthyTemporal(before) THEN before
        ELSE IF ValidDate(year, m.v.month, m.v.day) THEN ExactDate(<<year, m.v.month, m.v.day>>)
        ELSE before

\* "1/17", "01-17-25"
DatePeriod(query, today_d, before) == DateOfMatch(DateMatch(query), today_d, before)

\* The rule-based temporal filter, before the fallback to the model.
RuleTemporal(query, today_d) ==
    LET query_lower == Lower(query)
        t1 == MonthMention(query, query_lower, today_d)
        t2 == RelativePeriod(query_lower, today_d, t1)
        t3 == LastNPeriod(query_lower, today_d, t2)
        t4 == WeekdayPeriod(query_lower, today_d, t3)
    IN  DatePeriod(query, today_d, t4)

\* The days from date.min (0001-01-01) to the last day before the epoch year.
DaysBeforeEpoch ==
    (EpochYear - 1) * 365 + (EpochYear - 1) \div 4 - (EpochYear - 1) \div 100
        + (EpochYear - 1) \div 400

\* today - timedelta(days=n) raises OverflowError when it falls before date.min
BeforeDateMin(today_d, n) == n >= Ordinal(today_d) + DaysBeforeEpoch

\* Each "last N" search that matches computes its start date, whichever wins.
LastNOverflows(query_lower, today_d) ==
    \/ /\ LastN(<<"d","a","y">>, query_lower) # Absent
       /\ BeforeDateMin(today_d, LastN(<<"d","a","y">>, query_lower).v)
    \/ /\ LastN(<<"w","e","e","k">>, query_lower) # Absent
       /\ BeforeDateMin(today_d, LastN(<<"w","e","e","k">>, query_lower).v * 7)
    \/ /\ LastN(<<"m","o","n","t","h">>, query_lower) # Absent
       /\ BeforeDateMin(today_d, LastN(<<"m","o","n","t","h">>, query_lower).v * 30)

\* _classify_financial_query_rule_based raises (nothing in it catches the
\* OverflowError of the "last N" block, which runs when no period was found).
RuleBasedRaises(query, today_d) ==
    /\ ~TruthyTemporal(RelativePeriod(Lower(query), today_d,
                                      MonthMention(query, Lower(query), today_d)))
    /\ LastNOverflows(Lower(query), today_d)

\* merchant_groups, then known_merchants: the names in the order they are appended
RECURSIVE AppendMissing(_, _)
AppendMissing(list, more) ==
    IF more = << >> THEN list
    ELSE AppendMissing(IF \E i \in 1..Len(list) : list[i] = Head(more)
                       THEN list ELSE Append(list, Head(more)),
                       Tail(more))

RECURSIVE ExtendWithGroups(_, _, _, _, _)
\* for each group named in the query, in dict order: list.extend(group)
ExtendWithGroups(names, groups, query_lower, list, k) ==
    IF k > Len(names) THEN list
    ELSE ExtendWithGroups(names, groups, query_lower,
                          IF Contains(names[k], query_lower) THEN list \o groups[k] ELSE list,
                          k + 1)

\* the last group (in dict order) named in the query, if any
LastGroupNamed(names, query_lower, before) ==
    LET named == {k \in 1..Len(names) : Contains(names[k], query_lower)}
    IN  IF named = {} THEN before
        ELSE Some(names[CHOOSE k \in named : \A j \in named : j <= k])

RuleMerchants(query_lower) ==
    AppendMissing(ExtendWithGroups(rule_group_names, rule_group_merchants, query_lower, << >>, 1),
                  SelectSeq(known_merchants, LAMBDA m : Contains(m, query_lower)))

RuleCategories(query_lower) ==
    LET hit == SelectSeq([k \in 1..Len(category_names) |-> k],
                         LAMBDA k : AnyIn(category_keywords[k], query_lower))
    IN  [i \in 1..Len(hit) |-> category_names[hit[i]]]

\* The result dict of the rule-based pass, from the temporal filter the rules
\* found (ruled) and what extract_temporal_with_llm does when it is called (llm).
RuleBasedResult(query_lower, ruled, llm, cache, replies) ==
    LET ask == ~TruthyTemporal(ruled) /\ NeedsLlmTemporalParsing(query_lower)
        use == ask /\ TruthyTemporal(llm.value)
    IN  [result |->
            [intent |-> RuleIntent(query_lower),
             requires_structured |-> RuleIntent(query_lower) \in StructuredIntents,
             filters |-> [temporal |-> IF use THEN llm.value ELSE ruled,
                          merchants |-> RuleMerchants(query_lower),
                          categories |-> RuleCategories(query_lower),
                          limit |-> RuleLimit(query_lower),
                          llm_extracted |-> use,
                          merchant_category |-> LastGroupNamed(rule_group_names, query_lower, Absent)]],
         cache |-> IF ask THEN llm.cache ELSE cache,
         replies |-> IF ask THEN llm.replies ELSE replies,
         temporal_calls |-> IF ask THEN llm.calls ELSE 0]

\* _classify_financial_query_rule_based(query) on the day today_d: the result
\* dict, and what the fallback to extract_temporal_with_llm did.
ClassifyRuleBased(query, today_d, now_s, cache, replies) ==
    RuleBasedResult(Lower(query), RuleTemporal(query, today_d),
                    ExtractTemporalWithLlm(query, today_d, now_s, cache, replies),
                    cache, replies)

(***************************************************************************)
(* classify_query_unified_llm, _needs_llm_classification,                  *)
(* _expand_merchant_groups and classify_financial_query.  The reply of the *)
(* classification model is an input: FailedReply (the call raised, or the  *)
(* text is not JSON), or the parsed JSON object, each key of which may be  *)
(* missing.  The conversation history only goes into the prompt.           *)
(***************************************************************************)

\* dict.get(key, default) on an optional key of the reply
GetOr(o, default) == IF o = Absent THEN default ELSE o.v

\* The keys classify_financial_query and its callers add to a rule-based result.
WithContext(rule, broad, needs_data, needs_knowledge, llm_classified) ==
    [intent |-> rule.intent,
     requires_structured |-> rule.requires_structured,
     broad_intent |-> broad,
     needs_transaction_data |-> needs_data,
     needs_general_knowledge |-> needs_knowledge,
     filters |-> rule.filters,
     llm_classified |-> llm_classified,
     classification_mode |-> "unset",
     rule_based_intent |-> Absent]

\* The `normalized` dict built from a parsed reply.
Normalized(reply) ==
    LET intent  == GetOr(reply.intent, "general")
        filters == GetOr(reply.filters, [temporal |-> Absent, merchants |-> Absent,
                                         categories |-> Absent, limit |-> Absent])
    IN  [intent |-> intent,
         requires_structured |->
            IF intent \in StructuredIntents THEN TRUE ELSE GetOr(reply.requires_structured, FALSE),
         broad_intent |-> GetOr(reply.broad_intent, "hybrid"),
         needs_transaction_data |-> GetOr(reply.needs_transaction_data, TRUE),
         needs_general_knowledge |-> GetOr(reply.needs_general_knowledge, FALSE),
         filters |-> [temporal |-> GetOr(filters.temporal, NoTemporal),
                      merchants |-> GetOr(filters.merchants, << >>),
                      categories |-> GetOr(filters.categories, << >>),
                      limit |-> IF filters.limit = Absent THEN NoneV ELSE filters.limit,
                      llm_extracted |-> FALSE,
                      merchant_category |-> Absent],
         llm_classified |-> TRUE,
         classification_mode |-> "unset",
         rule_based_intent |-> Absent]

\* The return of classify_query_unified_llm: the normalized reply, or on any
\* exception (the call, the parse, a "filters" that is null) the rule-based
\* classification computed again (fallback).
UnifiedResult(llm, fallback, cache, replies) ==
    IF llm.tag = "fail" \/ llm.filters = NoneV
    THEN [result |-> WithContext(fallback.result, "hybrid", TRUE, TRUE, FALSE),
          cache |-> fallback.cache, replies |-> fallback.replies,
          temporal_calls |-> fallback.temporal_calls]
    ELSE [result |-> Normalized(llm), cache |-> cache, replies |-> replies,
          temporal_calls |-> 0]

\* The reply sends classify_query_unified_llm to its fallback: the call raised,
\* the text is not JSON, or "filters" is null.
FallsBack(llm) == IF llm.tag = "fail" THEN TRUE ELSE llm.filters = NoneV

\* classify_query_unified_llm raises: the reply sends it to the fallback and the
\* rule-based pass called there raises.
UnifiedRaises(query, today_d, llm) ==
    /\ FallsBack(llm)
    /\ RuleBasedRaises(query, today_d)

\* classify_query_unified_llm(query, conversation_history): one call to the model
ClassifyQueryUnifiedLlm(query, today_d, now_s, cache, llm, replies) ==
    UnifiedResult(llm, ClassifyRuleBased(query, today_d, now_s, cache, replies), cache, replies)

\* _needs_llm_classification(query, rule_based_result)
NeedsLlmClassification(query, rule_based_result) ==
    LET query_lower == Lower(query)
    IN  \/ AnyIn(llm_complex_patterns, query_lower)
        \/ rule_based_result.intent = "general" /\ AnyIn(financial_keywords, query_lower)
        \/ Contains(<<"?">>, query) /\ WordCount(query, 1) > 5

RECURSIVE ExpandFrom(_, _, _)
\* the loop of _expand_merchant_groups over the groups k, k+1, ...
ExpandFrom(query_lower, merchants, k) ==
    IF k > Len(expand_group_names) THEN merchants
    ELSE ExpandFrom(query_lower,
                    IF Contains(expand_group_names[k], query_lower)
                    THEN AppendMissing(merchants, expand_group_merchants[k])
                    ELSE merchants,
                    k + 1)

\* _expand_merchant_groups(query, result)
ExpandMerchantGroups(query, result) ==
    [result EXCEPT
        !.filters.merchants = ExpandFrom(Lower(query), @, 1),
        !.filters.merchant_category = LastGroupNamed(expand_group_names, Lower(query), @)]

Modes == {"hybrid", "llm_only", "rule_based_only"}

\* The rule-based classification as classify_financial_query returns it.
RuleBasedOnly(query, rule, mode_name) ==
    [classification |->
        ExpandMerchantGroups(query,
            [WithContext(rule.result,
                         IF rule.result.requires_structured THEN "financial" ELSE "hybrid",
                         TRUE, FALSE, FALSE)
                EXCEPT !.classification_mode = mode_name]),
     cache |-> rule.cache,
     calls |-> [classifier |-> 0, temporal |-> rule.temporal_calls]]

\* mode == 'llm_only': the unified classification alone
LlmOnly(query, unified) ==
    [classification |->
        ExpandMerchantGroups(query, [unified.result EXCEPT !.classification_mode = "llm"]),
     cache |-> unified.cache,
     calls |-> [classifier |-> 1, temporal |-> unified.temporal_calls]]

\* hybrid, the model is asked: the unified classification after the rule-based pass
HybridLlm(query, rule, unified) ==
    [classification |->
        ExpandMerchantGroups(query,
            [unified.result EXCEPT !.classification_mode = "hybrid_llm",
                                   !.rule_based_intent = Some(rule.result.intent)]),
     cache |-> unified.cache,
     calls |-> [classifier |-> 1,
                temporal |-> rule.temporal_calls + unified.temporal_calls]]

\* The branches of classify_financial_query after the rule-based pass (rule).
ClassifyAfterRules(query, use_llm, mode_, today_d, now_s, cache, llm, replies, rule) ==
    IF mode_ = "rule_based_only" \/ ~use_llm THEN RuleBasedOnly(query, rule, "rule_based")
    ELSE IF mode_ = "llm_only"
    THEN LlmOnly(query, ClassifyQueryUnifiedLlm(query, today_d, now_s, cache, llm, replies))
    ELSE IF NeedsLlmClassification(query, rule.result)
    THEN HybridLlm(query, rule,
                   ClassifyQueryUnifiedLlm(query, today_d, now_s, rule.cache, llm, rule.replies))
    ELSE RuleBasedOnly(query, rule, "hybrid_rule_based")

\* classify_financial_query(query, conversation_history, use_llm, mode): the
\* classification, the temporal cache afterwards and the calls made to the
\* two models.
ClassifyFinancialQuery(query, use_llm, mode_, today_d, now_s, cache, llm, replies) ==
    ClassifyAfterRules(query, use_llm, mode_, today_d, now_s, cache, llm, replies,
                       ClassifyRuleBased(query, today_d, now_s, cache, replies))

\* classify_financial_query raises: the rule-based pass it starts with does, or
\* (llm_only) the unified classification does.
ClassifyRaises(query, use_llm, mode_, today_d, llm) ==
    IF mode_ = "llm_only" /\ use_llm THEN UnifiedRaises(query, today_d, llm)
    ELSE RuleBasedRaises(query, today_d)

(***************************************************************************)
(* The transaction store of backend/app.py: the generated-transaction      *)
(* cache CACHED_TRANSACTIONS and the updates overlay TRANSACTION_UPDATES.  *)
(* A record carries the keys the engine reads (_id, description, amount,   *)
(* purchase_date, category) and `deleted`, the key the overlay adds; the   *)
(* keys status, account_type and account_name are never read.  Amounts     *)
(* are in cents.  The generator's year of 365 days, its 14-day pay period  *)
(* and the 10-record floor of get_all_transactions are scaled down to the  *)
(* horizon of the draws kept here.                                         *)
(***************************************************************************)

\* max(days, 365): the least number of days generated (scaled).
GenerationFloor == 3

\* day % 14 == 0: the pay period in days (scaled).
PayPeriod == 2

\* len(all_transactions) < 10: the list is generated again below this (scaled).
SparseBelow == 3

\* The draws of random.seed(42) for the days 0, 1, 2, ...: randint(2, 5)
\* records a day, each a random.choice(merchants) with a uniform amount.
DayDraws ==
    <<
       <<[description |-> <<"S","t","a","r","b","u","c","k","s"," ","C","o","f","f","e","e">>,
          category |-> <<"F","o","o","d"," ","&"," ","D","r","i","n","k">>, amount |-> 993],
         [description |-> <<"C","h","i","p","o","t","l","e">>,
          category |-> <<"F","o","o","d"," ","&"," ","D","r","i","n","k">>, amount |-> 1179]>>,
       <<[description |-> <<"W","a","l","m","a","r","t">>,
          category |-> <<"S","h","o","p","p","i","n","g">>, amount |-> 3152],
         [description |-> <<"S","p","o","t","i","f","y">>,
          category |-> <<"E","n","t","e","r","t","a","i","n","m","e","n","t">>, amount |-> 1003]>>,
       <<[description |-> <<"T","a","r","g","e","t">>,
          category |-> <<"S","h","o","p","p","i","n","g">>, amount |-> 4710],
         [description |-> <<"A","p","p","l","e"," ","S","t","o","r","e">>,
          category |-> <<"S","h","o","p","p","i","n","g">>, amount |-> 6194]>>,
       <<[description |-> <<"W","a","l","m","a","r","t">>,
          category |-> <<"S","h","o","p","p","i","n","g">>, amount |-> 5646],
         [description |-> <<"T","r","a","d","e","r"," ","J","o","e","s">>,
          category |-> <<"G","r","o","c","e","r","i","e","s">>, amount |-> 6536],
         [description |-> <<"S","t","a","r","b","u","c","k","s"," ","C","o","f","f","e","e">>,
          category |-> <<"F","o","o","d"," ","&"," ","D","r","i","n","k">>, amount |-> 1007]>>,
       <<[description |-> <<"S","p","o","t","i","f","y">>,
          category |-> <<"E","n","t","e","r","t","a","i","n","m","e","n","t">>, amount |-> 1034],
         [description |-> <<"N","e","t","f","l","i","x">>,
          category |-> <<"E","n","t","e","r","t","a","i","n","m","e","n","t">>, amount |-> 1608],
         [description |-> <<"A","T","M"," ","W","i","t","h","d","r","a","w","a","l">>,
          category |-> <<"O","t","h","e","r">>, amount |-> 5635]>>,
       <<[description |-> <<"A","m","a","z","o","n",".","c","o","m">>,
          category |-> <<"S","h","o","p","p","i","n","g">>, amount |-> 8462],
         [description |-> <<"V","e","r","i","z","o","n"," ","W","i","r","e","l","e","s","s">>,
          category |-> <<"B","i","l","l","s"," ","&"," ","U","t","i","l","i","t","i","e","s">>, amount |-> 9104],
         [description |-> <<"W","h","o","l","e"," ","F","o","o","d","s"," ","M","a","r","k","e","t">>,
          category |-> <<"G","r","o","c","e","r","i","e","s">>, amount |-> 12162],
         [description |-> <<"W","a","l","m","a","r","t">>,
          category |-> <<"S","h","o","p","p","i","n","g">>, amount |-> 3436],
         [description |-> <<"E","l","e","c","t","r","i","c"," ","C","o","m","p","a","n","y">>,
          category |-> <<"B","i","l","l","s"," ","&"," ","U","t","i","l","i","t","i","e","s">>, amount |-> 10630]>>
    >>

\* income_sources: the record added on a pay day, in cents
IncomeDraw ==
    [description |-> <<"P","a","y","r","o","l","l"," ","D","e","p","o","s","i","t">>,
     category |-> <<"I","n","c","o","m","e">>, amount |-> 250000]

\* _id is f"trans_{date}_{len(transactions)}" or f"income_{date}"
TransId(date, n) == <<"trans", date, n>>

IncomeId(date) == <<"income", date>>

RECURSIVE AppendDraws(_, _, _)
\* the inner loop of one day: a record for each draw, amounts negated
AppendDraws(transactions, draws, date) ==
    IF draws = << >> THEN transactions
    ELSE AppendDraws(
            Append(transactions,
                   [id |-> TransId(date, Len(transactions)),
                    description |-> Head(draws).description,
                    amount |-> 0 - Head(draws).amount,
                    purchase_date |-> date,
                    category |-> Head(draws).category,
                    deleted |-> FALSE]),
            Tail(draws), date)

RECURSIVE GenerateDays(_, _, _, _)
\* for day in range(generation_days): today's records, then the older days'
GenerateDays(day, generation_days, today_d, transactions) ==
    IF day >= generation_days THEN transactions
    ELSE LET date  == MinusDays(today_d, day)
             spent == AppendDraws(transactions, DayDraws[day + 1], date)
             paid  == IF day % PayPeriod = 0 /\ day > 0
                      THEN Append(spent, [id |-> IncomeId(date),
                                          description |-> IncomeDraw.description,
                                          amount |-> IncomeDraw.amount,
                                          purchase_date |-> date,
                                          category |-> IncomeDraw.category,
                                          deleted |-> FALSE])
                      ELSE spent
         IN  GenerateDays(day + 1, generation_days, today_d, paid)

\* strptime(purchase_date) >= datetime.now() - timedelta(days): the records of
\* the last `days` dates (now is later than midnight)
WithinDays(list, days, today_d) ==
    SelectSeq(list, LAMBDA t : ~DateLeq(t.purchase_date, MinusDays(today_d, days)))

\* `if not all_transactions`, `CACHED_TRANSACTIONS['data'] is not None`
CachedList(cached) == IF cached.data = NoneV THEN << >> ELSE cached.data.v

\* generate_realistic_transactions(days, accounts): the returned list and the
\* cache afterwards.  The returned records are the cache's own dicts.
GenerateRealisticTransactions(days, cached, today_d) ==
    IF /\ cached.data # NoneV
       /\ cached.generated_for_days # NoneV
       /\ cached.generated_for_days.v >= days
    THEN [list |-> WithinDays(cached.data.v, days, today_d), cached |-> cached]
    ELSE LET generation_days == Max2(days, GenerationFloor)
             transactions == GenerateDays(0, generation_days, today_d, << >>)
         IN  [list |-> WithinDays(transactions, days, today_d),
              cached |-> [data |-> Some(transactions),
                          generated_for_days |-> Some(generation_days)]]

\* An overlay entry: the keys `deleted` and `category` (missing, or set).
NoEntry == [deleted |-> FALSE, category |-> Absent, present |-> FALSE]

\* TRANSACTION_UPDATES[id] = {**old, 'deleted': True, ...}
MarkDeleted(entry) == [entry EXCEPT !.deleted = TRUE, !.present = TRUE]

\* TRANSACTION_UPDATES[id] = {**old, **updates, ...}
MergeUpdates(entry, updates) ==
    [entry EXCEPT !.category = IF updates.category = Absent THEN @ ELSE updates.category,
                  !.present = TRUE]

\* transaction.update(TRANSACTION_UPDATES[trans_id])
UpdatedBy(t, entry) ==
    [t EXCEPT !.deleted = IF entry.deleted THEN TRUE ELSE @,
              !.category = IF entry.category = Absent THEN @ ELSE entry.category.v]

\* The overlay laid over the records of a list whose _id it knows.
ApplyUpdates(list, updates) ==
    [i \in 1..Len(list) |->
        IF list[i].id \in DOMAIN updates /\ updates[list[i].id].present
        THEN UpdatedBy(list[i], updates[list[i].id]) ELSE list[i]]

\* The cache after records of it were changed in place: each cached record
\* whose _id is in `changed` is replaced by the changed record.
WrittenThrough(cached, changed) ==
    IF cached.data = NoneV THEN cached
    ELSE [cached EXCEPT !.data = Some(
            [i \in 1..Len(cached.data.v) |->
                IF \E k \in 1..Len(changed) : changed[k].id = cached.data.v[i].id
                THEN changed[CHOOSE k \in 1..Len(changed) : changed[k].id = cached.data.v[i].id]
                ELSE cached.data.v[i]])]

\* [t for t in all_transactions if not t.get('deleted', False)]
NotDeleted(list) == SelectSeq(list, LAMBDA t : ~t.deleted)

(***************************************************************************)
(* get_all_transactions (backend/app.py).  Plaid either raises or returns  *)
(* no transaction; the categorisation model either returns nothing or      *)
(* files the first listed record under "Other".                            *)
(***************************************************************************)

OtherCategory == <<"O","t","h","e","r">>

\* The categorisation and the return: the first listed record is filed under
\* "Other" when the model answers, in the cache's own dict.
Categorised(recategorise, cached, listed) ==
    LET filed == IF recategorise /\ listed # << >>
                 THEN [listed EXCEPT ![1].category = OtherCategory]
                 ELSE listed
    IN  [transactions |-> filed, cached |-> WrittenThrough(cached, filed)]

\* The cutoff on purchase_date and the sort, newest first.
Windowed(days, recategorise, today_d, got) ==
    Categorised(recategorise, got.cached,
                SortedByDateDesc(WithinDays(got.list, days, today_d)))

\* `if len(all_transactions) < 10`: the list is generated again
Regenerated(days, recategorise, today_d, cached, kept) ==
    Windowed(days, recategorise, today_d,
             IF Len(kept) < SparseBelow
             THEN GenerateRealisticTransactions(days, cached, today_d)
             ELSE [list |-> kept, cached |-> cached])

\* The overlay is laid over the records (in place), the deleted ones are dropped.
Overlaid(days, recategorise, today_d, cached, overlaid) ==
    Regenerated(days, recategorise, today_d,
                WrittenThrough(cached, overlaid), NotDeleted(overlaid))

\* The steps of the handler after the list `first` was fetched.
AfterFetch(days, recategorise, updates, today_d, first) ==
    Overlaid(days, recategorise, today_d, first.cached, ApplyUpdates(first.list, updates))

\* The handler's list and the cache afterwards.
GetAllTransactionsResult(days, plaid, recategorise, cached, updates, today_d) ==
    AfterFetch(days, recategorise, updates, today_d,
               IF plaid = "error"
               THEN GenerateRealisticTransactions(days, cached, today_d)
               ELSE [list |-> << >>, cached |-> cached])

(***************************************************************************)
(* filter_transactions_with_llm (backend/app.py).  The reply of the model  *)
(* is an input: FailedReply, or the list of merchant names it matched.     *)
(***************************************************************************)

coffee_fallback == 
    <<<<"s","t","a","r","b","u","c","k","s">>, <<"c","o","f","f","e","e">>, <<"c","a","f","e">>, <<"d","u","n","k","i","n">>, <<"p","e","e","t","s">>, <<"e","s","p","r","e","s","s","o">>>>

\* the merchant names of a list, each once, in order of first occurrence
RECURSIVE Descriptions(_)
Descriptions(list) ==
    IF list = << >> THEN << >>
    ELSE AppendMissing(Descriptions(SubSeq(list, 1, Len(list) - 1)),
                       <<list[Len(list)].description>>)

\* list(set(...)): the order of a set of strings changes with the hash seed of
\* the process; the model has the order of first occurrence and its reverse.
HashSeeds == {0, 1}

HashOrdered(list, seed) == IF seed = 0 THEN list ELSE Reverse(list)

\* filter_transactions_with_llm without the keyword heuristic of its except.
FilterWithoutFallback(query, transactions, temporal_filtered, reply, seed) ==
    LET txns_to_analyze == IF temporal_filtered # << >> THEN temporal_filtered ELSE transactions
        named(t) == \E k \in 1..Len(reply.matching_merchants) :
                        \/ Contains(Lower(reply.matching_merchants[k]), Lower(t.description))
                        \/ Contains(Lower(t.description), Lower(reply.matching_merchants[k]))
    IN  IF txns_to_analyze = << >>
        THEN [matching_transactions |-> << >>, matching_merchants |-> << >>,
              reasoning |-> "No transactions to analyze"]
        ELSE IF reply.tag # "fail"
        THEN [matching_transactions |-> SelectSeq(txns_to_analyze, named),
              matching_merchants |-> reply.matching_merchants,
              reasoning |-> "model"]
        ELSE [matching_transactions |-> << >>, matching_merchants |-> << >>,
              reasoning |-> "LLM filter failed"]

FilterTransactionsWithLlm(query, transactions, temporal_filtered, reply, seed) ==
    LET txns_to_analyze == IF temporal_filtered # << >> THEN temporal_filtered ELSE transactions
        named(t) == \E k \in 1..Len(reply.matching_merchants) :
                        \/ Contains(Lower(reply.matching_merchants[k]), Lower(t.description))
                        \/ Contains(Lower(t.description), Lower(reply.matching_merchants[k]))
        fallback_matches ==
            SelectSeq(txns_to_analyze, LAMBDA t : AnyIn(coffee_fallback, Lower(t.description)))
    IN  IF txns_to_analyze = << >>
        THEN [matching_transactions |-> << >>, matching_merchants |-> << >>,
              reasoning |-> "No transactions to analyze"]
        ELSE IF reply.tag # "fail"
        THEN [matching_transactions |-> SelectSeq(txns_to_analyze, named),
              matching_merchants |-> reply.matching_merchants,
              reasoning |-> "model"]
        ELSE IF Contains(<<"c","o","f","f","e","e">>, Lower(query)) /\ fallback_matches # << >>
        THEN [matching_transactions |-> fallback_matches,
              matching_merchants |-> HashOrdered(Descriptions(fallback_matches), seed),
              reasoning |-> "Fallback pattern matching for coffee-related merchants"]
        ELSE [matching_transactions |-> << >>, matching_merchants |-> << >>,
              reasoning |-> "LLM filter failed"]

(***************************************************************************)
(* The conversation of chat_with_rag (backend/app.py): the context taken   *)
(* from message_history or from the conversation memory, and the           *)
(* resolution of referential words.  The texts of the model hold no white  *)
(* space other than " ".                                                   *)
(***************************************************************************)

referential_words ==
    <<<<"t","h","e","y">>, <<"i","t">>, <<"t","h","a","t">>, <<"t","h","i","s">>,
      <<"t","h","o","s","e">>, <<"t","h","e","s","e">>, <<"t","h","e","r","e">>,
      <<"h","e","r","e">>>>

\* [A-Z]
IsUpper(c) == \E i \in 1..Len(UpperChars) : UpperChars[i] = c

\* [A-Za-z\s\']
IsNameChar(c) ==
    \/ IsUpper(c)
    \/ \E i \in 1..Len(LowerChars) : LowerChars[i] = c
    \/ c = " "
    \/ c = "'"

\* \w
IsWordChar(c) ==
    \/ IsUpper(c)
    \/ \E i \in 1..Len(LowerChars) : LowerChars[i] = c
    \/ IsDigit(c)
    \/ c = "_"

\* word in s.split()
HasToken(word, s) ==
    \E i \in 1..Len(s) :
        /\ StartsAt(word, s, i)
        /\ CharAt(s, i - 1) \in {"", " "}
        /\ CharAt(s, i + Len(word)) \in {"", " "}

\* any(word in query_lower.split() for word in referential_words)
IsReferential(query_lower) ==
    \E k \in 1..Len(referential_words) : HasToken(referential_words[k], query_lower)

\* [\.\,\s] at position i
EndsName(text, i) == CharAt(text, i) \in {".", ",", " "}

\* \s+for\s+\$ at position i
EndsAmount(text, i) ==
    /\ CharAt(text, i) = " "
    /\ StartsAt(<<"f","o","r">>, text, SkipSpaces(text, i))
    /\ CharAt(text, SkipSpaces(text, i) + 3) = " "
    /\ CharAt(text, SkipSpaces(text, SkipSpaces(text, i) + 3)) = "$"

\* The ends e of ([A-Z][A-Za-z\s\']+?) begun at g for which the rest of the
\* pattern matches after e.
NameEnds(text, g, amount) ==
    {e \in (g + 1)..Len(text) :
        /\ \A k \in (g + 1)..e : IsNameChar(text[k])
        /\ IF amount THEN EndsAmount(text, e + 1) ELSE EndsName(text, e + 1)}

\* The group of a pattern whose capture begins at g: the lazy quantifier
\* takes the shortest one.  No match: the empty set.
NameFrom(text, g, amount) ==
    IF IsUpper(CharAt(text, g)) /\ NameEnds(text, g, amount) # {}
    THEN {SubSeq(text, g, MinOf(NameEnds(text, g, amount)))}
    ELSE {}

\* keyword\s+(...) with the keyword at position i
KeywordAt(keyword, text, i, amount) ==
    IF StartsAt(keyword, text, i) /\ CharAt(text, i + Len(keyword)) = " "
    THEN NameFrom(text, SkipSpaces(text, i + Len(keyword)), amount)
    ELSE {}

\* purchase\s+(?:at|from)?\s*(...) with `purchase` at position i
PurchaseAt(text, i) ==
    IF ~(StartsAt(<<"p","u","r","c","h","a","s","e">>, text, i) /\ CharAt(text, i + 8) = " ")
    THEN {}
    ELSE IF StartsAt(<<"a","t">>, text, SkipSpaces(text, i + 8))
    THEN NameFrom(text, SkipSpaces(text, SkipSpaces(text, i + 8) + 2), FALSE)
    ELSE IF StartsAt(<<"f","r","o","m">>, text, SkipSpaces(text, i + 8))
    THEN NameFrom(text, SkipSpaces(text, SkipSpaces(text, i + 8) + 4), FALSE)
    ELSE NameFrom(text, SkipSpaces(text, i + 8), FALSE)

\* The match of the k-th pattern of `patterns` at position i of the text.
PatternAt(k, text, i) ==
    CASE k = 1 -> KeywordAt(<<"w","a","s">>, text, i, TRUE)
      [] k = 2 -> KeywordAt(<<"a","t">>, text, i, FALSE)
      [] k = 3 -> KeywordAt(<<"f","r","o","m">>, text, i, FALSE)
      [] k = 4 -> PurchaseAt(text, i)

\* re.search(patterns[k], text): group 1 of the leftmost match, or no match.
Search(k, text) ==
    IF \E i \in 1..Len(text) : PatternAt(k, text, i) # {}
    THEN PatternAt(k, text, MinOf({i \in 1..Len(text) : PatternAt(k, text, i) # {}}))
    ELSE {}

\* The first of the four patterns that matches: match.group(1).strip()
FirstEntity(text) ==
    IF \E k \in 1..4 : Search(k, text) # {}
    THEN {Strip(e) : e \in Search(MinOf({k \in 1..4 : Search(k, text) # {}}), text)}
    ELSE {}

\* \bword\b at position i of s, ignoring case
WordAt(word, s, i) ==
    /\ StartsAt(word, Lower(s), i)
    /\ ~IsWordChar(CharAt(s, i - 1))
    /\ ~IsWordChar(CharAt(s, i + Len(word)))

RECURSIVE Substitute(_, _, _, _)
\* re.sub(rf'\b{word}\b', entity, s, flags=re.IGNORECASE), from position i
Substitute(word, entity, s, i) ==
    IF i > Len(s) THEN << >>
    ELSE IF WordAt(word, s, i)
    THEN entity \o Substitute(word, entity, s, i + Len(word))
    ELSE <<s[i]>> \o Substitute(word, entity, s, i + 1)

\* for word in referential_words: if word in query_lower: re.sub(...); break
Rewrite(entity, user_query) ==
    IF AnyIn(referential_words, Lower(user_query))
    THEN Substitute(referential_words[MinOf({k \in 1..Len(referential_words) :
                                              Contains(referential_words[k], Lower(user_query))})],
                    entity, user_query, 1)
    ELSE user_query

\* One text of recent_texts: the query rewritten with the entity of the first
\* pattern that matches, when that entity has more than two characters.
ResolvedBy(text, user_query) ==
    IF \E e \in FirstEntity(text) : Len(e) > 2
    THEN Rewrite(CHOOSE e \in FirstEntity(text) : TRUE, user_query)
    ELSE user_query

RECURSIVE ScanTexts(_, _, _)
\* for text in recent_texts: ... if resolved_query != user_query: break
ScanTexts(recent_texts, user_query, k) ==
    IF k > Len(recent_texts) THEN user_query
    ELSE IF ResolvedBy(recent_texts[k], user_query) # user_query
    THEN ResolvedBy(recent_texts[k], user_query)
    ELSE ScanTexts(recent_texts, user_query, k + 1)

\* resolved_query
ResolveReferences(user_query, current_conversation) ==
    IF IsReferential(Lower(user_query))
    THEN ScanTexts([k \in 1..Len(current_conversation) |-> current_conversation[k].text],
                   user_query, 1)
    ELSE user_query

\* message_history[-6:]
LastSix(message_history) ==
    SubSeq(message_history, Max2(1, Len(message_history) - 5), Len(message_history))

\* conversation_context['current_conversation'] built from message_history
FromHistory(message_history) ==
    [k \in 1..Len(LastSix(message_history)) |->
        [text |-> LastSix(message_history)[k].role \o <<":", " ">>
                    \o LastSix(message_history)[k].content,
         timestamp |-> LastSix(message_history)[k].timestamp,
         role |-> LastSix(message_history)[k].role]]

(***************************************************************************)
(* The conversation memory (backend/rag_service.py).  A RAGService is the  *)
(* record of the attributes __init__ sets; the conversation memory is the  *)
(* collection `conversation_memory` of the vector store, as the sequence   *)
(* of its entries in the order they were first upserted.  The ranking of   *)
(* the store is an input.                                                  *)
(***************************************************************************)

\* RAGService(): the attributes of the instance
RAGService(enabled) ==
    [enabled |-> enabled,
     client |-> IF enabled THEN Some("PersistentClient") ELSE NoneV,
     embedding_model |-> IF enabled THEN Some("SentenceTransformer") ELSE NoneV,
     collections |-> IF enabled THEN {"transactions", "spending_patterns", "user_goals"} ELSE {}]

\* rag_service.chroma_client raises AttributeError
NoChromaClient(service) == "chroma_client" \notin DOMAIN service

\* collection.upsert(documents=[text], metadatas=[...], ids=[message_id])
Upsert(memory, entry) ==
    IF \E k \in 1..Len(memory) : memory[k].id = entry.id
    THEN [k \in 1..Len(memory) |-> IF memory[k].id = entry.id THEN entry ELSE memory[k]]
    ELSE Append(memory, entry)

\* embed_conversation_message: what it returns and the memory afterwards
EmbedConversationMessage(service, memory, conversation_id, message_id, role, content, timestamp) ==
    IF ~service.enabled THEN [ok |-> FALSE, memory |-> memory]
    ELSE IF NoChromaClient(service) THEN [ok |-> FALSE, memory |-> memory]
    ELSE [ok |-> TRUE,
          memory |-> Upsert(memory,
                            [id |-> message_id, document |-> role \o <<":", " ">> \o content,
                             conversation_id |-> conversation_id, role |-> role,
                             timestamp |-> timestamp])]

\* collection.query(where={'conversation_id': ...}, n_results=n): the entries
\* of the conversation in the order of `ranking`, the first n of them.
QueryConversation(memory, ranking, conversation_id, n_results) ==
    Prefix(SelectSeq([k \in 1..Len(ranking) |-> memory[ranking[k]]],
                     LAMBDA m : m.conversation_id = conversation_id),
           n_results)

\* retrieve_conversation_context(...)['current_conversation']
RetrieveConversationContext(service, memory, ranking, conversation_id, n_results) ==
    IF ~service.enabled THEN << >>
    ELSE IF NoChromaClient(service) THEN << >>
    ELSE IF conversation_id = NoneV THEN << >>
    ELSE LET found == QueryConversation(memory, ranking, conversation_id.v, n_results)
         IN  [k \in 1..Len(found) |->
                 [text |-> found[k].document, timestamp |-> found[k].timestamp,
                  role |-> found[k].role]]

(***************************************************************************)
(* chat_with_rag (backend/app.py).  The text the generation model writes   *)
(* is not modelled: `generated` says whether generate_content returned or  *)
(* raised.                                                                 *)
(***************************************************************************)

\* A response body with no key set.
NoBody ==
    [endpoint |-> "none", status |-> 0, error |-> Absent, response |-> Absent,
     method |-> Absent, verification |-> Absent, temporal_filter |-> Absent,
     llm_extracted |-> Absent, matching_merchants |-> Absent, query_intent |-> Absent,
     testing_mode |-> Absent, transactions |-> Absent, transaction_id |-> Absent]

\* The condition of PATH 1.5, tested before `if needs_structured:`.
SemanticListPath(classification, user_query) ==
    /\ \/ classification.intent = "list"
       \/ classification.broad_intent = "financial" /\ ~classification.requires_structured
    /\ AnyIn(semantic_list_triggers, Lower(user_query))

\* PATH 1.5 compares purchase_date with a start_date of None: TypeError
ListTemporalRaises(temporal, list) ==
    /\ TruthyTemporal(temporal)
    /\ ~(temporal.month # Absent /\ temporal.year # Absent)
    /\ temporal.start_date = NoneV
    /\ list # << >>

\* The temporal filter of PATH 1.5: month/year or a range; an exact date is not read.
ListTemporal(temporal, list) ==
    IF ~TruthyTemporal(temporal) THEN list
    ELSE IF temporal.month # Absent /\ temporal.year # Absent
    THEN SelectSeq(list, LAMBDA t : MatchesMonthYear(t.purchase_date, temporal.month, temporal.year))
    ELSE IF temporal.start_date # Absent
    THEN LET fromStart == SelectSeq(list, LAMBDA t : DateLeq(temporal.start_date.v, t.purchase_date))
         IN  IF TruthyOpt(temporal.end_date)
             THEN SelectSeq(fromStart, LAMBDA t : DateLeq(t.purchase_date, temporal.end_date.v))
             ELSE fromStart
    ELSE list

\* The 500 of the outer `except Exception as e`.
ChatRaised == [NoBody EXCEPT !.endpoint = "chat", !.status = 500, !.error = Some("exception")]

\* A failed generate_content answered without the fixed apology.
ChatGenerationLost ==
    [NoBody EXCEPT !.endpoint = "chat", !.status = 500,
                   !.error = Some("Failed to generate response")]

\* The 500 of a failed generate_content, with its fixed apology.
ChatNotGenerated ==
    [NoBody EXCEPT !.endpoint = "chat", !.status = 500,
                   !.error = Some("Failed to generate response"),
                   !.response = Some("apology")]

\* The body of a generated answer on PATH 1 and PATH 2.
ChatAnswered(classification, method_used, verification) ==
    [NoBody EXCEPT !.endpoint = "chat", !.status = 200,
                   !.response = Some("generated"),
                   !.method = Some(method_used),
                   !.verification = verification,
                   !.temporal_filter =
                        IF TruthyTemporal(classification.filters.temporal)
                        THEN Some(classification.filters.temporal) ELSE NoneV,
                   !.llm_extracted = Some(classification.filters.llm_extracted),
                   !.query_intent = Some(classification.broad_intent)]

\* all_transactions of PATH 1.5 and of PATH 1: the cached list, generated for a
\* year when the cache is empty; with the cache afterwards.
ChatTransactions(cached, today_d) ==
    IF CachedList(cached) # << >>
    THEN [list |-> CachedList(cached), cached |-> cached]
    ELSE GenerateRealisticTransactions(GenerationFloor, cached, today_d)

\* generate_content(prompt): whether the call returned or raised
Generation(generated) == IF generated THEN "returned" ELSE "raised"

\* What a chat request did: the classification (c), the transaction cache
\* afterwards, the list read, the structured result, method_used, what became
\* of the generation call, the result of the merchant filter and the response.
ChatOutcome(c, cached, all_transactions, structured_result, method_used, generation, llm_filter_result, body) ==
    [classification |-> c.classification, calls |-> c.calls, cache |-> c.cache,
     cached |-> cached, all_transactions |-> all_transactions,
     structured_result |-> structured_result, method_used |-> method_used,
     generation |-> generation, llm_filter_result |-> llm_filter_result,
     response |-> body]

\* The body PATH 1.5 returns.
ChatListed(classification, llm_filter_result, temporal_filtered) ==
    [NoBody EXCEPT
        !.endpoint = "chat", !.status = 200,
        !.response = Some("generated"),
        !.method = Some("semantic_llm_filter"),
        !.verification = Some([kind |-> "llm_identified",
                               n |-> Len(llm_filter_result.matching_merchants),
                               of |-> Len(temporal_filtered)]),
        !.matching_merchants = Some(llm_filter_result.matching_merchants),
        !.query_intent = Some(classification.broad_intent)]

\* PATH 1.5 once the merchants were matched.
ChatSemanticMatched(generated, c, fetched, temporal_filtered, llm_filter_result) ==
    ChatOutcome(c, fetched.cached, fetched.list, NotRun, "semantic_llm_filter",
        Generation(generated), Some(llm_filter_result),
        IF generated
        THEN ChatListed(c.classification, llm_filter_result, temporal_filtered)
        ELSE ChatNotGenerated)

\* PATH 1.5 once the temporal filter was applied.
ChatSemanticFiltered(user_query, filter_reply, seed, generated, c, fetched, temporal_filtered) ==
    ChatSemanticMatched(generated, c, fetched, temporal_filtered,
                        FilterTransactionsWithLlm(user_query, fetched.list,
                                                  temporal_filtered, filter_reply, seed))

\* PATH 1.5: the merchants are picked by the model, the executor is not run.
ChatSemanticList(user_query, filter_reply, seed, generated, c, fetched) ==
    IF ListTemporalRaises(c.classification.filters.temporal, fetched.list)
    THEN ChatOutcome(c, fetched.cached, fetched.list, NotRun, "semantic_llm_filter",
                     "not called", NoneV, ChatRaised)
    ELSE ChatSemanticFiltered(user_query, filter_reply, seed, generated, c, fetched,
                              ListTemporal(c.classification.filters.temporal, fetched.list))

\* PATH 1, `if needs_structured:`, once the executor returned or raised.
ChatExecuted(generated, c, fetched, structured_result) ==
    ChatOutcome(c, fetched.cached, fetched.list, structured_result, "structured_query",
        IF structured_result.raised THEN "not called" ELSE Generation(generated), NoneV,
        IF structured_result.raised THEN ChatRaised
        ELSE IF generated
        THEN ChatAnswered(c.classification, "structured_query",
                          Some(structured_result.verification))
        ELSE ChatNotGenerated)

\* PATH 1: the executor runs on the list read from the cache.
ChatStructured(generated, c, fetched) ==
    ChatExecuted(generated, c, fetched, ExecuteStructuredQuery(c.classification, fetched.list))

\* PATH 2: the transaction cache is not read.
ChatSemanticSearch(generated, c, cached) ==
    ChatOutcome(c, cached, << >>, NotRun, "semantic_search", Generation(generated), NoneV,
        IF generated THEN ChatAnswered(c.classification, "semantic_search", NoneV)
        ELSE ChatNotGenerated)

\* conversation_context['current_conversation']: the last messages of
\* message_history, else what the conversation memory returns.
CurrentConversation(message_history, conversation_id, service, memory, ranking) ==
    IF message_history # << >> THEN FromHistory(message_history)
    ELSE IF TruthyOpt(conversation_id)
    THEN RetrieveConversationContext(service, memory, ranking, conversation_id, 5)
    ELSE << >>

\* context: retrieve_context(user_query) of an enabled service, fetched again
\* for resolved_query when the query was rewritten.
RetrievedContext(service, user_query, resolved_query) ==
    IF resolved_query # user_query THEN Some([query |-> resolved_query])
    ELSE IF service.enabled THEN Some([query |-> user_query])
    ELSE NoneV

\* `datetime` is a local of chat_with_rag that only the import under
\* `if temporal_filter:` binds: without a temporal filter datetime.now()
\* raises UnboundLocalError inside the try of the embedding.
DatetimeUnbound(classification) == ~TruthyTemporal(classification.filters.temporal)

\* response.text as the content of the assistant's turn
AnswerText == <<"a","n","s","w","e","r">>

\* The assistant's turn is embedded after the user's turn (first).
EmbedAssistant(service, conversation_id, now_s, first, second) ==
    [memory |-> second.memory, embedded |-> <<first.ok, second.ok>>]

\* The two calls of embed_conversation_message; the ids are fresh.
EmbedUser(service, conversation_id, user_query, now_s, first) ==
    EmbedAssistant(service, conversation_id, now_s, first,
        EmbedConversationMessage(service, first.memory, conversation_id,
                                 Len(first.memory) + 1, <<"a","s","s","i","s","t","a","n","t">>,
                                 AnswerText, now_s))

\* Embed conversation turns for future context: PATH 1 and PATH 2, after the
\* generation, when the request has a conversation_id.
ChatEmbedding(service, memory, conversation_id, user_query, now_s, r) ==
    IF /\ r.generation = "returned"
       /\ r.method_used # "semantic_llm_filter"
       /\ TruthyOpt(conversation_id)
       /\ ~DatetimeUnbound(r.classification)
    THEN EmbedUser(service, conversation_id.v, user_query, now_s,
            EmbedConversationMessage(service, memory, conversation_id.v, Len(memory) + 1,
                                     <<"u","s","e","r">>, user_query, now_s))
    ELSE [memory |-> memory, embedded |-> << >>]

(***************************************************************************)
(* The inputs of the model: the day and time of the session, the queries,  *)
(* the replies of the three models and the requests of the endpoints.      *)
(***************************************************************************)

\* datetime.now(): the day of the session (a Monday)
SessionDay == <<2025, 2, 10>>

\* Number of filler words appended to a query.
MaxPad == 1

BaseQueries ==
    <<<<"W","h","a","t"," ","w","a","s"," ","m","y"," ","b","i","g","g","e","s","t"," ","e","x","p","e","n","s","e"," ","l","a","s","t"," ","m","o","n","t","h","?">>,
     <<"H","o","w"," ","m","a","n","y"," ","t","i","m","e","s"," ","d","i","d"," ","I"," ","g","o"," ","t","o"," ","S","t","a","r","b","u","c","k","s"," ","t","h","i","s"," ","y","e","a","r">>,
     <<"W","h","a","t"," ","c","o","f","f","e","e"," ","s","h","o","p","s"," ","h","a","v","e"," ","I"," ","b","o","u","g","h","t"," ","f","r","o","m">>,
     <<"l","a","t","e","s","t"," ","2"," ","p","u","r","c","h","a","s","e","s">>,
     <<"m","o","s","t"," ","r","e","c","e","n","t"," ","t","r","a","n","s","a","c","t","i","o","n","s">>,
     <<"t","o","t","a","l"," ","s","p","e","n","t"," ","w","i","t","h"," ","u","b","e","r">>,
     <<"h","e","l","l","o">>,
     <<"t","o","t","a","l"," ","a","t"," ","s","t","a","r","b","u","c","k","s"," ","a","r","o","u","n","d"," ","t","h","e"," ","h","o","l","i","d","a","y","s">>,
     <<"s","h","o","w"," ","m","e"," ","a","m","a","z","o","n"," ","i","n"," ","j","a","n","u","a","r","y">>,
     <<"a","v","e","r","a","g","e"," ","o","n"," ","1","/","1","7">>,
     <<"s","m","a","l","l","e","s","t"," ","u","b","e","r"," ","l","a","s","t"," ","3"," ","m","o","n","t","h","s">>,
     <<"c","o","u","n","t"," ","f","o","o","d"," ","l","a","s","t"," ","f","r","i","d","a","y">>,
     <<"t","o","t","a","l"," ","i","n"," ","t","h","e"," ","l","a","s","t"," ","9","9","9","9","9","9"," ","d","a","y","s">>>>

RECURSIVE Padded(_, _)
\* the query followed by n filler words
Padded(q, n) == IF n = 0 THEN q ELSE Padded(q, n - 1) \o <<" ","n","o","w">>

Queries == {Padded(BaseQueries[k], n) : k \in 1..Len(BaseQueries), n \in 0..MaxPad}

\* The arguments of classify_financial_query.
ClassifyCalls ==
    {[query |-> q, use_llm |-> TRUE, mode |-> m] : q \in Queries, m \in Modes}
        \cup {[query |-> q, use_llm |-> FALSE, mode |-> "hybrid"] : q \in Queries}

JsonReply(intent, requires_structured, broad_intent, filters) ==
    [tag |-> "json", intent |-> intent, requires_structured |-> requires_structured,
     broad_intent |-> broad_intent, needs_transaction_data |-> Absent,
     needs_general_knowledge |-> Absent, filters |-> filters]

ReplyFilters(temporal, limit) ==
    Some([temporal |-> temporal, merchants |-> Absent, categories |-> Absent, limit |-> limit])

\* Replies of the classification model.
LlmReplies ==
    {FailedReply,
     JsonReply(Some("list"), Some(TRUE), Some("financial"), ReplyFilters(Absent, NoneV)),
     JsonReply(Absent, Absent, Some("conversational"), Absent),
     JsonReply(Some("calculate_total"), Some(TRUE), Some("financial"),
               ReplyFilters(Some([MonthYear(1, 2025) EXCEPT !.other = TRUE]), NoneV)),
     JsonReply(Some("count"), Absent, Some("financial"), NoneV)}

TemporalJson(no_temporal, start_date, end_date) ==
    [tag |-> "json", no_temporal |-> no_temporal, start_date |-> start_date, end_date |-> end_date]

Holidays == TemporalJson(FALSE, Some(<<2024, 12, 20>>), Some(<<2025, 1, 5>>))

\* "around the holidays" answered with both dates in the year of the session
HolidaysOfOneYear == TemporalJson(FALSE, Some(<<2025, 12, 20>>), Some(<<2025, 1, 5>>))

\* Replies of the temporal-extraction model to the calls of one request, in order.
TemporalReplies ==
    {<<FailedReply, FailedReply>>,
     <<FailedReply, Holidays>>,
     <<Holidays, Holidays>>,
     <<TemporalJson(TRUE, Absent, Absent), Holidays>>,
     <<TemporalJson(FALSE, Absent, Absent), Holidays>>,
     <<HolidaysOfOneYear, Holidays>>}

\* Seconds since the cache entry of the session was written.
Clock == {0, 10, 4000}

\* The temporal cache before the call: empty, or holding an entry for the
\* call's own key written at time 0.
CachesFor(query, today_d) ==
    {<< >>,
     <<[key |-> CacheKey(query, today_d),
        value |-> RangeBetween(<<2024, 12, 24>>, <<2024, 12, 26>>), time |-> 0]>>}

\* The messages of the chat requests.
ChatQueries ==
    {<<"W","h","a","t"," ","w","a","s"," ","m","y"," ","b","i","g","g","e","s","t"," ","e","x","p","e","n","s","e","?">>,
     <<"s","h","o","w"," ","m","e"," ","w","h","a","t"," ","I"," ","b","o","u","g","h","t">>,
     <<"W","h","a","t"," ","c","o","f","f","e","e"," ","s","h","o","p","s"," ","h","a","v","e"," ","I"," ","b","o","u","g","h","t"," ","f","r","o","m">>,
     <<"h","e","l","l","o">>,
     <<"l","a","t","e","s","t"," ","2"," ","p","u","r","c","h","a","s","e","s">>,
     <<"t","o","t","a","l"," ","a","t"," ","s","t","a","r","b","u","c","k","s"," ","a","r","o","u","n","d"," ","t","h","e"," ","h","o","l","i","d","a","y","s">>}

\* Replies of the classification model to a chat request.
ChatLlmReplies ==
    {FailedReply,
     JsonReply(Some("list"), Some(TRUE), Some("financial"), ReplyFilters(Absent, NoneV))}

\* Replies of the temporal-extraction model to the calls of a chat request.
ChatTemporalReplies == {<<FailedReply, FailedReply>>, <<Holidays, Holidays>>}

\* Replies of the merchant-matching model.
FilterReplies ==
    {FailedReply,
     [tag |-> "json", matching_merchants |-> << >>],
     [tag |-> "json", matching_merchants |-> <<<<"S","t","a","r","b","u","c","k","s">>>>]}

\* The store generated on the session's day for the least number of days.
FloorStore == GenerateDays(0, GenerationFloor, SessionDay, << >>)

\* The ids the delete and update requests name: today's first record and the
\* last record of the third day.
IdChoices == {FloorStore[1].id, FloorStore[6].id}

\* The `updates` of an update request.
UpdateChoices == {[category |-> Some(OtherCategory)]}

\* The `days` of a get-all-transactions request.
DaysChoices == {1, GenerationFloor + 1}

\* No request is being handled.
NoRequest ==
    [endpoint |-> "none", transaction_id |-> Absent, updates |-> [category |-> Absent],
     days |-> 0, message |-> << >>, testing_mode |-> FALSE,
     conversation_id |-> NoneV, message_history |-> << >>]

\* The requests: the JSON bodies and query strings the endpoints read.
Requests ==
    {[NoRequest EXCEPT !.endpoint = "delete", !.transaction_id = i] :
        i \in {Absent} \cup {Some(id) : id \in IdChoices}}
    \cup {[NoRequest EXCEPT !.endpoint = "update", !.transaction_id = i, !.updates = u] :
        i \in {Absent} \cup {Some(id) : id \in IdChoices}, u \in UpdateChoices}
    \cup {[NoRequest EXCEPT !.endpoint = "get_all", !.days = d] : d \in DaysChoices}
    \cup {[NoRequest EXCEPT !.endpoint = "chat", !.message = m, !.testing_mode = t] :
        m \in {<< >>} \cup ChatQueries, t \in BOOLEAN}

(***************************************************************************)
(* The module state at import, and the values of the variables a           *)
(* specification does not use.                                             *)
(***************************************************************************)

\* CACHED_TRANSACTIONS = {'data': None, 'generated_for_days': None}
EmptyTransactionCache == [data |-> NoneV, generated_for_days |-> NoneV]

\* TRANSACTION_UPDATES = {}
NoUpdates == [id \in IdChoices |-> NoEntry]

\* _temporal_cache = {}
EmptyTemporalCache == << >>

NoCalls == [classifier |-> 0, temporal |-> 0]

NoCall == [query |-> << >>, use_llm |-> TRUE, mode |-> "hybrid"]

NoEnv == [today |-> SessionDay, now |-> 0, llm |-> FailedReply, replies |-> << >>]

NoClassification ==
    WithContext([intent |-> "general", requires_structured |-> FALSE,
                 filters |-> [temporal |-> NoTemporal, merchants |-> << >>,
                              categories |-> << >>, limit |-> Absent,
                              llm_extracted |-> FALSE, merchant_category |-> Absent]],
                "hybrid", TRUE, FALSE, FALSE)

\* chat_with_rag has answered nothing.
NoLocals ==
    [user_query |-> << >>, resolved_query |-> << >>, current_conversation |-> << >>, context |-> NoneV,
     generation |-> "not called", llm_filter_result |-> NoneV, embedded |-> << >>]

\* The store and the endpoints' variables stay as they are at import.
StoreAtImport ==
    /\ CACHED_TRANSACTIONS = EmptyTransactionCache
    /\ TRANSACTION_UPDATES = NoUpdates
    /\ request = NoRequest
    /\ response = NoBody
    /\ rag_service = RAGService(TRUE)
    /\ conversation_memory = << >>
    /\ locals = NoLocals

\* No request is running beside the one being handled, and nothing is logged.
NoThreads ==
    /\ threads = << >>
    /\ returned = << >>

(***************************************************************************)
(* SpecExec: one call of execute_structured_query on any plan and list.    *)
(***************************************************************************)

InitExec ==
    /\ plan \in {q \in Plans : q.intent = "find_recent" \/ q.filters.limit = Absent}
    /\ txns \in TxnLists
    /\ res = NotRun
    /\ pc = "ready"
    /\ call = NoCall
    /\ env = NoEnv
    /\ llm_calls = NoCalls
    /\ temporal_cache = EmptyTemporalCache
    /\ StoreAtImport
    /\ NoThreads

Execute ==
    /\ pc = "ready"
    /\ res' = ExecuteStructuredQuery(plan, txns)
    /\ pc' = "done"
    /\ UNCHANGED <<plan, txns, classifyVars, storeVars, threadVars>>

NextExec == Execute

SpecExec == InitExec /\ [][NextExec]_vars

(***************************************************************************)
(* Reference definitions for the executor's claims: a record-by-record     *)
(* scan written from the data model (TemporalFilter is ExactDate,          *)
(* MonthYear or Range with a start and an optional end), not from the      *)
(* executor's list comprehensions.                                         *)
(***************************************************************************)

\* A temporal filter of the data model: none, or exactly one of the three forms.
WellFormedTemporal(t) ==
    \/ t = NoTemporal
    \/ \E d \in {r.purchase_date : r \in {Rec(i) : i \in 1..PoolSize}} \cup {<<2025, 1, 1>>} :
          \/ t = ExactDate(d)
          \/ t = RangeFrom(d)
          \/ \E e \in {r.purchase_date : r \in {Rec(i) : i \in 1..PoolSize}} : t = RangeBetween(d, e)
    \/ \E m \in 1..12, y \in {2024, 2025} : t = MonthYear(m, y)

DateLess(a, b) ==
    \/ a[1] < b[1]
    \/ a[1] = b[1] /\ a[2] < b[2]
    \/ a[1] = b[1] /\ a[2] = b[2] /\ a[3] < b[3]

InPeriod(t, d) ==
    /\ IsSome(t.date) => d = t.date.v
    /\ IsSome(t.month) => d[2] = t.month.v /\ d[1] = t.year.v
    /\ IsSome(t.start_date) => ~DateLess(d, t.start_date.v)
    /\ IsSome(t.end_date) => ~DateLess(t.end_date.v, d)

NamesOneOf(names, text) ==
    names # << >> => \E k \in DOMAIN names : Contains(Lower(names[k]), Lower(text))

Satisfies(q, r) ==
    /\ InPeriod(q.filters.temporal, r.purchase_date)
    /\ NamesOneOf(q.filters.merchants, r.description)
    /\ NamesOneOf(q.filters.categories, r.category)

RECURSIVE FullScan(_, _)
FullScan(q, s) ==
    IF s = << >> THEN << >>
    ELSE (IF Satisfies(q, Head(s)) THEN <<Head(s)>> ELSE << >>) \o FullScan(q, Tail(s))

\* The positions of the expense (negative amount) records of a list.
ExpenseAt(s) == {k \in DOMAIN s : s[k].amount < 0}

RECURSIVE RefSumAbs(_, _)
\* Sum of |amount| over the positions ks of s.
RefSumAbs(s, ks) ==
    IF ks = {} THEN 0
    ELSE LET k == CHOOSE x \in ks : TRUE
         IN  Abs(s[k].amount) + RefSumAbs(s, ks \ {k})

\* out holds the n most recent records of r: n records of r, no record
\* twice, dates never increasing, and no record left out is more recent
\* than one that is in.
IsMostRecent(out, r, n) ==
    /\ Len(out) = Min2(n, Len(r))
    /\ \A k \in DOMAIN out : \E i \in DOMAIN r : r[i] = out[k]
    /\ \A a, b \in DOMAIN out : a < b =>
          /\ out[a] # out[b]
          /\ DateLeq(out[b].purchase_date, out[a].purchase_date)
    /\ \A i \in DOMAIN r : (\A k \in DOMAIN out : out[k] # r[i]) =>
          \A k \in DOMAIN out : DateLeq(r[i].purchase_date, out[k].purchase_date)

Done == pc = "done"

Matched == FullScan(plan, txns)

(***************************************************************************)
(* Claims about execute_structured_query, checked under SpecExec.          *)
(***************************************************************************)

C3_CountIsSizeOfFilteredSet ==
    (Done /\ plan.intent = "count" /\ WellFormedTemporal(plan.filters.temporal)
          /\ Matched # << >>)
        => /\ res.result.kind = "count"
           /\ res.result.count = Len(Matched)

\* C4: with at least one expense in the filtered set, find_maximum returns
\* the expense of most negative amount and find_minimum the expense of least
\* negative amount, and among equals the first one in filtered order.
C4_ExtremeExpenseFirstInOrder ==
    (Done /\ plan.intent \in {"find_maximum", "find_minimum"}
          /\ WellFormedTemporal(plan.filters.temporal) /\ ExpenseAt(Matched) # {})
        => /\ res.result.kind = "txn"
           /\ \E k \in ExpenseAt(Matched) :
                 /\ res.result.txn = Matched[k]
                 /\ \A j \in ExpenseAt(Matched) :
                       IF plan.intent = "find_maximum"
                       THEN /\ Matched[k].amount <= Matched[j].amount
                            /\ j < k => Matched[k].amount < Matched[j].amount
                       ELSE /\ Matched[k].amount >= Matched[j].amount
                            /\ j < k => Matched[k].amount > Matched[j].amount

\* Witness of C4: the extreme amount is shared by two expenses and the
\* returned record is the earlier of the two, which is not the first record.
C4_Witness ==
    /\ Done
    /\ plan.intent = "find_maximum"
    /\ res.result.kind = "txn"
    /\ \E j, k \in ExpenseAt(Matched) :
          /\ 1 < k
          /\ k < j
          /\ Matched[j].amount = Matched[k].amount
          /\ res.result.txn = Matched[k]

\* C5 as claimed: the total is the sum of the absolute amounts of the
\* expense-sign records of the matched set and count is their number; the
\* average comes with the count and total of the same records and
\* average * count = total.
C5_TotalsOverExpenseRecords ==
    (Done /\ res.result.kind \in {"total", "average"})
        => /\ res.result.total = RefSumAbs(Matched, ExpenseAt(Matched))
           /\ res.result.count = Cardinality(ExpenseAt(Matched))
           /\ res.result.kind = "average" =>
                 res.result.average[1] * res.result.count = res.result.total * res.result.average[2]

\* C5 amended: total and count are taken over the expense-sign records of the
\* matched set when it has one, and over every record of the matched set when
\* it has none; calculate_average reports average, count and total over those
\* same records, with average = total / count.
C5_TotalsOverOperands ==
    (Done /\ plan.intent \in {"calculate_total", "calculate_average"}
          /\ WellFormedTemporal(plan.filters.temporal) /\ Matched # << >>)
        => LET over == IF ExpenseAt(Matched) # {} THEN ExpenseAt(Matched) ELSE DOMAIN Matched
           IN  /\ res.result.kind = (IF plan.intent = "calculate_total" THEN "total" ELSE "average")
               /\ res.result.total = RefSumAbs(Matched, over)
               /\ res.result.count = Cardinality(over)
               /\ res.result.kind = "average" =>
                     res.result.average[1] * res.result.count
                         = res.result.total * res.result.average[2]

\* Witness of C5: an average over several expenses of a matched set that also
\* holds income, whose quotient is not a whole number.
C5_Witness ==
    /\ Done
    /\ plan.intent = "calculate_average"
    /\ res.result.kind = "average"
    /\ res.result.count >= 2
    /\ res.result.count < Len(Matched)
    /\ res.result.average[2] > 1

\* C6 as claimed: find_recent returns the filtered set sorted by date
\* descending and cut to the first `limit` records, the limit being 5 when the
\* plan carries no limit value (key missing or null); never more than that.
C6_RecentCutToLimit ==
    (Done /\ plan.intent = "find_recent" /\ res.result.kind = "recent")
        => LET limit == IF IsSome(plan.filters.limit) THEN plan.filters.limit.v ELSE DefaultLimit
           IN  /\ Len(res.result.transactions) <= limit
               /\ IsMostRecent(res.result.transactions, Matched, limit)

\* C7 as claimed: find_recent does not exclude income: whenever the filtered
\* set is non-empty the result lists its most recent records, also when no
\* record of the filtered set is an expense.
C7_RecentKeepsIncome ==
    (Done /\ plan.intent = "find_recent" /\ WellFormedTemporal(plan.filters.temporal)
          /\ Matched # << >>)
        => /\ res.result.kind = "recent"
           /\ res.result.transactions # << >>
           /\ \A i \in DOMAIN Matched :
                 DateLeq(Matched[i].purchase_date, res.result.transactions[1].purchase_date)

\* C8: on an empty transaction list every structured intent returns normally,
\* with result None and a verification message; nothing is raised.
C8_EmptyListReturnsNone ==
    (Done /\ txns = << >>)
        => /\ ~res.raised
           /\ res.result.kind = "None"
           /\ res.verification.kind = "no_match"
           /\ res.filtered_transactions = << >>

\* Witness of C8: the empty list under a temporal filter whose start is None,
\* the filter that raises on any non-empty list.
C8_Witness ==
    /\ Done
    /\ txns = << >>
    /\ plan.filters.temporal.start_date = NoneV
    /\ res.verification.kind = "no_match"
(***************************************************************************)
(* SpecClassify: one call of classify_financial_query, on any query, mode, *)
(* temporal cache and replies of the models, followed (as in PATH 1 of the *)
(* chat endpoint) by the executor over the generated store when the        *)
(* classification requires it.                                             *)
(***************************************************************************)

InitClassify ==
    /\ call \in ClassifyCalls
    /\ env \in {[today |-> SessionDay, now |-> n, llm |-> l, replies |-> r] :
                    n \in Clock, l \in LlmReplies, r \in TemporalReplies}
    /\ temporal_cache \in CachesFor(call.query, SessionDay)
    /\ temporal_cache = EmptyTemporalCache => env.now = 0
    /\ llm_calls = NoCalls
    /\ plan = NoClassification
    /\ txns = FloorStore
    /\ res = NotRun
    /\ pc = "ready"
    /\ StoreAtImport
    /\ NoThreads

Classify ==
    /\ pc = "ready"
    /\ ~ClassifyRaises(call.query, call.use_llm, call.mode, env.today, env.llm)
    /\ \E c \in {ClassifyFinancialQuery(call.query, call.use_llm, call.mode, env.today, env.now,
                                        temporal_cache, env.llm, env.replies)} :
          /\ plan' = c.classification
          /\ temporal_cache' = c.cache
          /\ llm_calls' = c.calls
    /\ pc' = "classified"
    /\ UNCHANGED <<call, env, txns, res, storeVars, threadVars>>

\* classify_financial_query raises: nothing is returned and the cache is as it
\* was (the rule-based pass raises before it reaches the temporal model).
ClassifyRaised ==
    /\ pc = "ready"
    /\ ClassifyRaises(call.query, call.use_llm, call.mode, env.today, env.llm)
    /\ llm_calls' = [NoCalls EXCEPT !.classifier =
                        IF call.mode = "llm_only" /\ call.use_llm THEN 1 ELSE 0]
    /\ pc' = "raised"
    /\ UNCHANGED <<call, env, plan, temporal_cache, txns, res, storeVars, threadVars>>

ExecuteClassified ==
    /\ pc = "classified"
    /\ plan.requires_structured
    /\ res' = ExecuteStructuredQuery(plan, txns)
    /\ pc' = "done"
    /\ UNCHANGED <<call, env, temporal_cache, llm_calls, plan, txns, storeVars, threadVars>>

NextClassify == Classify \/ ClassifyRaised \/ ExecuteClassified

SpecClassify == InitClassify /\ [][NextClassify]_vars

(***************************************************************************)
(* Spec: the endpoints /delete-transaction, /update-transaction,           *)
(* /get-all-transactions and /api/chat over the module state, one request  *)
(* at a time.  `request` is the request being handled; `response` is the   *)
(* response to the last request handled, and plan, txns and res are the    *)
(* classification, the list handed to the executor and the structured      *)
(* result when that request was a chat.                                    *)
(***************************************************************************)

Init ==
    /\ StoreAtImport
    /\ NoThreads
    /\ temporal_cache = EmptyTemporalCache
    /\ call = NoCall
    /\ env = NoEnv
    /\ llm_calls = NoCalls
    /\ plan = NoClassification
    /\ txns = << >>
    /\ res = NotRun
    /\ pc = "serving"

\* The chat's variables when the request is not an answered chat.
NoChat ==
    /\ call' = NoCall
    /\ env' = NoEnv
    /\ llm_calls' = NoCalls
    /\ plan' = NoClassification
    /\ txns' = << >>
    /\ res' = NotRun
    /\ locals' = NoLocals
    /\ UNCHANGED <<pc, temporal_cache, threadVars, rag_service, conversation_memory>>

\* A request arrives; nothing has been answered to it yet.
Receive ==
    /\ pc = "serving"
    /\ request = NoRequest
    /\ request' \in Requests
    /\ response' = NoBody
    /\ NoChat
    /\ UNCHANGED <<CACHED_TRANSACTIONS, TRANSACTION_UPDATES>>

\* delete_transaction with no transaction_id: 400
DeleteRejected ==
    /\ request.endpoint = "delete"
    /\ request.transaction_id = Absent
    /\ response' = [NoBody EXCEPT !.endpoint = "delete", !.status = 400,
                                  !.error = Some("Missing transaction_id")]
    /\ request' = NoRequest
    /\ NoChat
    /\ UNCHANGED <<CACHED_TRANSACTIONS, TRANSACTION_UPDATES>>

DeleteTransaction ==
    /\ request.endpoint = "delete"
    /\ request.transaction_id # Absent
    /\ TRANSACTION_UPDATES' =
          [TRANSACTION_UPDATES EXCEPT ![request.transaction_id.v] = MarkDeleted(@)]
    /\ response' = [NoBody EXCEPT !.endpoint = "delete", !.status = 200,
                                  !.transaction_id = request.transaction_id]
    /\ request' = NoRequest
    /\ NoChat
    /\ UNCHANGED CACHED_TRANSACTIONS

\* update_transaction with no transaction_id: 400
UpdateRejected ==
    /\ request.endpoint = "update"
    /\ request.transaction_id = Absent
    /\ response' = [NoBody EXCEPT !.endpoint = "update", !.status = 400,
                                  !.error = Some("Missing transaction_id")]
    /\ request' = NoRequest
    /\ NoChat
    /\ UNCHANGED <<CACHED_TRANSACTIONS, TRANSACTION_UPDATES>>

UpdateTransaction ==
    /\ request.endpoint = "update"
    /\ request.transaction_id # Absent
    /\ TRANSACTION_UPDATES' =
          [TRANSACTION_UPDATES EXCEPT
              ![request.transaction_id.v] = MergeUpdates(@, request.updates)]
    /\ response' = [NoBody EXCEPT !.endpoint = "update", !.status = 200,
                                  !.transaction_id = request.transaction_id]
    /\ request' = NoRequest
    /\ NoChat
    /\ UNCHANGED CACHED_TRANSACTIONS

\* get_all_transactions: Plaid raises or has nothing, the categorisation
\* model answers or not.
GetAllTransactions ==
    /\ request.endpoint = "get_all"
    /\ \E plaid \in {"error", "empty"}, recategorise \in BOOLEAN :
          \E r \in {GetAllTransactionsResult(request.days, plaid, recategorise,
                                              CACHED_TRANSACTIONS, TRANSACTION_UPDATES,
                                              SessionDay)} :
              /\ CACHED_TRANSACTIONS' = r.cached
              /\ response' = [NoBody EXCEPT !.endpoint = "get_all", !.status = 200,
                                            !.transactions = Some(r.transactions)]
    /\ request' = NoRequest
    /\ NoChat
    /\ UNCHANGED TRANSACTION_UPDATES

\* chat_with_rag with an empty message: 400
ChatRejected ==
    /\ request.endpoint = "chat"
    /\ request.message = << >>
    /\ response' = [NoBody EXCEPT !.endpoint = "chat", !.status = 400,
                                  !.error = Some("Message is required")]
    /\ request' = NoRequest
    /\ NoChat
    /\ UNCHANGED <<CACHED_TRANSACTIONS, TRANSACTION_UPDATES>>

\* chat_with_rag when neither generation model can be built: 503
ChatUnavailable ==
    /\ request.endpoint = "chat"
    /\ request.message # << >>
    /\ response' = [NoBody EXCEPT !.endpoint = "chat", !.status = 503,
                                  !.error = Some("AI service temporarily unavailable"),
                                  !.response = Some("unavailable")]
    /\ request' = NoRequest
    /\ NoChat
    /\ UNCHANGED <<CACHED_TRANSACTIONS, TRANSACTION_UPDATES>>

\* chat_with_rag with testing_mode: both answers, no classification
ChatTesting ==
    /\ request.endpoint = "chat"
    /\ request.message # << >>
    /\ request.testing_mode
    /\ response' = [NoBody EXCEPT !.endpoint = "chat", !.status = 200,
                                  !.testing_mode = Some(TRUE)]
    /\ request' = NoRequest
    /\ NoChat
    /\ UNCHANGED <<CACHED_TRANSACTIONS, TRANSACTION_UPDATES>>

\* What the handler leaves behind: r is its ChatOutcome, current_conversation
\* and resolved_query are its locals.
ChatReturns(r, current_conversation, resolved_query) ==
    /\ llm_calls' = r.calls
    /\ plan' = r.classification
    /\ txns' = r.all_transactions
    /\ res' = r.structured_result
    /\ temporal_cache' = r.cache
    /\ CACHED_TRANSACTIONS' = r.cached
    /\ response' = r.response
    /\ \E e \in {ChatEmbedding(rag_service, conversation_memory, request.conversation_id,
                                request.message, 0, r)} :
          /\ conversation_memory' = e.memory
          /\ locals' = [user_query |-> request.message,
                        resolved_query |-> resolved_query,
                        current_conversation |-> current_conversation,
                        context |-> RetrievedContext(rag_service, request.message,
                                                     resolved_query),
                        generation |-> r.generation,
                        llm_filter_result |-> r.llm_filter_result,
                        embedded |-> e.embedded]

\* The three paths on the classification c of user_query.
ChatPaths(c, current_conversation, resolved_query) ==
    IF SemanticListPath(c.classification, request.message)
    THEN \E fetched \in {ChatTransactions(CACHED_TRANSACTIONS, SessionDay)},
            filter_reply \in FilterReplies, seed \in HashSeeds, generated \in BOOLEAN :
            ChatReturns(ChatSemanticList(request.message, filter_reply, seed, generated, c,
                                         fetched),
                        current_conversation, resolved_query)
    ELSE IF c.classification.requires_structured
    THEN \E fetched \in {ChatTransactions(CACHED_TRANSACTIONS, SessionDay)},
            generated \in BOOLEAN :
            ChatReturns(ChatStructured(generated, c, fetched),
                        current_conversation, resolved_query)
    ELSE \E generated \in BOOLEAN :
            ChatReturns(ChatSemanticSearch(generated, c, CACHED_TRANSACTIONS),
                        current_conversation, resolved_query)

\* The rankings the vector store can give the entries of the memory.
Rankings(memory) ==
    {r \in [1..Len(memory) -> 1..Len(memory)] : \A i, j \in 1..Len(memory) : r[i] = r[j] => i = j}

\* chat_with_rag, the normal mode: the conversation context, the resolution
\* of references, the classification, then PATH 1.5, PATH 1 or PATH 2.  The
\* models' replies are those the request meets.
Chat ==
    /\ request.endpoint = "chat"
    /\ request.message # << >>
    /\ ~request.testing_mode
    /\ \E llm \in ChatLlmReplies, replies \in ChatTemporalReplies,
          ranking \in Rankings(conversation_memory) :
          /\ call' = [query |-> request.message, use_llm |-> TRUE, mode |-> "hybrid"]
          /\ env' = [today |-> SessionDay, now |-> 0, llm |-> llm, replies |-> replies]
          /\ \E current_conversation \in
                    {CurrentConversation(request.message_history, request.conversation_id,
                                         rag_service, conversation_memory, ranking)} :
                \E c \in {ClassifyFinancialQuery(request.message, TRUE, "hybrid", SessionDay,
                                                    0, temporal_cache, llm, replies)} :
                    ChatPaths(c, current_conversation,
                              ResolveReferences(request.message, current_conversation))
    /\ request' = NoRequest
    /\ UNCHANGED <<pc, TRANSACTION_UPDATES, threadVars, rag_service>>

Next ==
    \/ Receive
    \/ DeleteRejected
    \/ DeleteTransaction
    \/ UpdateRejected
    \/ UpdateTransaction
    \/ GetAllTransactions
    \/ ChatRejected
    \/ ChatUnavailable
    \/ ChatTesting
    \/ Chat

Spec == Init /\ [][Next]_vars

(***************************************************************************)
(* Claims about the classifier, checked under SpecClassify.                *)
(***************************************************************************)

Classified == pc \in {"classified", "done"}

\* C10: in hybrid mode the classification model is never called for a query
\* to which the rule-based pass gave a definite (non-general) intent.
C10_HybridAsksModelOnlyWhenUnclassified ==
    (Classified /\ call.mode = "hybrid" /\ call.use_llm
        /\ RuleIntent(Lower(call.query)) # "general")
    => llm_calls.classifier = 0

(***************************************************************************)
(* Claims about the endpoints, checked under Spec.                         *)
(***************************************************************************)

\* The ids the overlay marks as deleted.
DeletedIds == {id \in IdChoices : TRANSACTION_UPDATES[id].deleted}

IdsOf(list) == {list[k].id : k \in DOMAIN list}

\* The ids of the records a structured result names.
ResultIds(r) ==
    IF r.result.kind = "txn" THEN {r.result.txn.id}
    ELSE IF r.result.kind = "recent" THEN IdsOf(r.result.transactions)
    ELSE { }

\* The chat endpoint has answered with the result of the executor.
ChatRanExecutor ==
    /\ response.endpoint = "chat"
    /\ response.status = 200
    /\ res.verification.kind # "not_run"

\* C1: after any sequence of requests, an id the overlay marks as deleted is
\* neither in filtered_transactions nor in the result of the structured query
\* the chat endpoint has just run.
C1_DeletedNeverInStructuredResult ==
    ChatRanExecutor =>
        DeletedIds \cap (IdsOf(res.filtered_transactions) \cup ResultIds(res)) = { }

\* C9: a chat request whose classification has requires_structured = true is
\* answered by the executor over the whole store, with method
\* structured_query, and by no other path.
C9_StructuredRequestsRunExecutor ==
    (response.endpoint = "chat" /\ response.status = 200 /\ plan.requires_structured)
    => /\ response.method = Some("structured_query")
       /\ res.verification.kind # "not_run"
       /\ txns = CachedList(CACHED_TRANSACTIONS)

\* C11: when the classification model fails or its output cannot be parsed,
\* classify_query_unified_llm (called alone, in mode llm_only) raises nothing
\* and returns the rule-based classification of the same query (intent,
\* requires_structured, filters) with broad_intent = hybrid,
\* needs_transaction_data = needs_general_knowledge = true and
\* llm_classified = false.
C11_FallbackReturnsRuleBased ==
    [][(pc = "ready" /\ call.mode = "llm_only" /\ call.use_llm /\ FallsBack(env.llm))
        => /\ pc' = "classified"
           /\ plan' = ExpandMerchantGroups(call.query,
                        [WithContext(ClassifyRuleBased(call.query, env.today, env.now,
                                                       temporal_cache, env.replies).result,
                                     "hybrid", TRUE, TRUE, FALSE)
                            EXCEPT !.classification_mode = "llm"])]_vars

\* C12: a temporal filter of a classification that came from the rule-based
\* patterns or from the reply of the temporal extractor (not from the
\* classification model) and has both a start and an end date has
\* start <= end.
C12_RangeStartsBeforeItEnds ==
    (Classified /\ ~plan.llm_classified
        /\ IsSome(plan.filters.temporal.start_date)
        /\ IsSome(plan.filters.temporal.end_date))
    => DateLeq(plan.filters.temporal.start_date.v, plan.filters.temporal.end_date.v)

\* The temporal model was called for the classification in hand and every
\* call failed (raised, or gave text that is not JSON).
TemporalCallsFailed(calls) ==
    /\ calls.temporal >= 1
    /\ \A k \in 1..calls.temporal : env.replies[k] = FailedReply

\* C16: when the call of the temporal model fails or its output cannot be
\* parsed, extract_temporal_with_llm returns None and leaves the cache as it
\* was: the rule-based classification that called it has no temporal filter
\* and is not flagged llm_extracted, and the executor excludes no record by
\* date (the matched set is the merchant and category filters of the whole
\* list) and does not raise.
C16_FailedExtractionIsAllTime ==
    /\ [][(pc = "ready" /\ pc' = "classified" /\ TemporalCallsFailed(llm_calls')
                /\ ~plan'.llm_classified)
            => /\ temporal_cache' = temporal_cache
               /\ plan'.filters.temporal = NoTemporal
               /\ ~plan'.filters.llm_extracted]_vars
    /\ []((pc = "done" /\ TemporalCallsFailed(llm_calls) /\ ~plan.llm_classified)
            => /\ ~res.raised
               /\ res.filtered_transactions =
                    ApplyCategories(plan.filters.categories,
                                    ApplyMerchants(plan.filters.merchants, txns)))

\* The temporal model failed on a query for a merchant, and the executor ran
\* over records of several days.
C16_Witness ==
    /\ pc = "done"
    /\ TemporalCallsFailed(llm_calls)
    /\ ~plan.llm_classified
    /\ plan.filters.merchants # << >>
    /\ res.filtered_transactions # << >>
    /\ \E i, j \in 1..Len(txns) : txns[i].purchase_date # txns[j].purchase_date

\* C19: no request changes a record held in the generated-transaction cache:
\* after any sequence of update, delete, get-all-transactions and chat
\* requests the cached records are, field for field, the records as they were
\* generated.
C19_CachedRecordsAsGenerated ==
    (CACHED_TRANSACTIONS.data # NoneV /\ CACHED_TRANSACTIONS.generated_for_days # NoneV)
    => CACHED_TRANSACTIONS.data.v =
            GenerateDays(0, CACHED_TRANSACTIONS.generated_for_days.v, SessionDay, << >>)

\* The last request was a chat answered with a generated text.
ChatGenerated ==
    /\ response.endpoint = "chat"
    /\ response.status = 200
    /\ response.response = Some("generated")

\* C20: every generated response of the chat endpoint, on each of the paths
\* structured_query, semantic_search and semantic_llm_filter, has the keys
\* method (one of the three values), verification and temporal_filter.
C20_ResponseCarriesMetadata ==
    ChatGenerated
    => /\ response.method \in {Some("structured_query"), Some("semantic_search"),
                               Some("semantic_llm_filter")}
       /\ response.verification # Absent
       /\ response.temporal_filter # Absent

(***************************************************************************)
(* SpecTemporal: calls of extract_temporal_with_llm one after the other,   *)
(* on a few queries, while the clock advances between the calls.  The      *)
(* cache starts empty or, as after a hundred earlier extractions, full.    *)
(* `returned` logs each call: its key, whether the model was asked, the    *)
(* age of the cached entry found and the filter returned.                  *)
(***************************************************************************)

\* Calls made in one behaviour.
MaxCalls == 2

\* The first query with capitals and surrounding blanks has the key of the second.
TemporalQueries ==
    {<<" ","A","r","o","u","n","d"," ","t","h","e"," ","H","o","l","i","d","a","y","s"," ">>,
     <<"a","r","o","u","n","d"," ","t","h","e"," ","h","o","l","i","d","a","y","s">>,
     <<"t","a","x"," ","s","e","a","s","o","n">>}

\* Seconds that pass before a call: within the TTL, the TTL, a day and ten seconds.
Advances == {10, TemporalTtl, SecondsPerDay + 10}

ExtractorReplies == {FailedReply, Holidays, TemporalJson(TRUE, Absent, Absent)}

\* The query of the k-th earlier extraction
EarlierQuery(k) == <<"q", Digits[(k \div 10) + 1], Digits[(k % 10) + 1]>>

\* The cache after TemporalCacheMax extractions of different queries, one a second.
FullCache ==
    [k \in 1..TemporalCacheMax |->
        [key |-> CacheKey(EarlierQuery(k - 1), SessionDay), value |-> NoTemporal, time |-> k]]

\* The same cache after every entry expired and was extracted again, the last
\* one first: the older an entry's place, the newer its time.
RefreshedCache ==
    [k \in 1..TemporalCacheMax |-> [FullCache[k] EXCEPT !.time = TemporalCacheMax + 1 - k]]

InitTemporal ==
    /\ temporal_cache \in {EmptyTemporalCache, RefreshedCache}
    /\ env = [today |-> SessionDay, now |-> TemporalCacheMax, llm |-> FailedReply,
              replies |-> << >>]
    /\ returned = << >>
    /\ threads = << >>
    /\ call = NoCall
    /\ llm_calls = NoCalls
    /\ plan = NoClassification
    /\ txns = << >>
    /\ res = NotRun
    /\ pc = "extracting"
    /\ StoreAtImport

\* The age timedelta of the entry under the key, when there is one.
CachedAge(cache, key, now_s) ==
    IF CacheIndex(cache, key) = {} THEN Absent
    ELSE Some(now_s - cache[CHOOSE i \in CacheIndex(cache, key) : TRUE].time)

\* What the log keeps of a call that returned r.
Logged(query, current_dt, now_s, cache, r) ==
    [key |-> CacheKey(query, current_dt),
     time |-> now_s,
     age |-> CachedAge(cache, CacheKey(query, current_dt), now_s),
     asked |-> r.calls = 1,
     failed |-> r.calls = 1 /\ r.replies = << >> /\ r.cache = cache /\ r.value = NoTemporal,
     value |-> r.value]

\* One call of extract_temporal_with_llm(query, current_dt), from the check of
\* the cache to the return.
ExtractTemporal ==
    /\ pc = "extracting"
    /\ Len(returned) < MaxCalls
    /\ \E query \in TemporalQueries, advance \in Advances, reply \in ExtractorReplies :
         \E r \in {ExtractTemporalWithLlm(query, env.today, env.now + advance,
                                          temporal_cache, <<reply>>)} :
            /\ temporal_cache' = r.cache
            /\ env' = [env EXCEPT !.now = env.now + advance, !.replies = <<reply>>]
            /\ llm_calls' = [llm_calls EXCEPT !.temporal = @ + r.calls]
            /\ returned' = Append(returned, Logged(query, env.today, env.now + advance,
                                                   temporal_cache, r))
    /\ UNCHANGED <<pc, call, plan, txns, res, threads, storeVars>>

NextTemporal == ExtractTemporal

SpecTemporal == InitTemporal /\ [][NextTemporal]_vars

\* C13: two calls of the temporal extractor with the same query text and the
\* same reference date return the identical filter, whatever the first call's
\* outcome and whatever is extracted in between.
C13_SameKeySameFilter ==
    \A i, j \in 1..Len(returned) :
        returned[i].key = returned[j].key => returned[i].value = returned[j].value

\* C14: a cached extraction is returned only while its age is below the TTL;
\* when the entry under the key is older (by any amount, a day and more
\* included) the call asks the model again.
C14_ExpiredEntriesAreExtractedAgain ==
    \A i \in 1..Len(returned) :
        /\ ~returned[i].asked => returned[i].age # Absent /\ returned[i].age.v < TemporalTtl
        /\ (returned[i].age # Absent /\ returned[i].age.v >= TemporalTtl) => returned[i].asked

KeysOf(cache) == {cache[i].key : i \in 1..Len(cache)}

\* The entries of the cache that a step removes.
Evicted == {i \in 1..Len(temporal_cache) : temporal_cache[i].key \notin KeysOf(temporal_cache')}

\* C15: after every completed call, in any sequence of calls, the cache holds
\* at most 100 entries; the entries a call removes are the oldest by time,
\* and the entry the call inserted is kept.
C15_CacheBoundedOldestEvicted ==
    /\ [](Len(temporal_cache) <= TemporalCacheMax)
    /\ [][/\ \A i \in Evicted : \A j \in 1..Len(temporal_cache') :
                temporal_cache[i].time <= temporal_cache'[j].time
          /\ (Len(returned') > Len(returned) /\ returned'[Len(returned')].asked
                    /\ ~returned'[Len(returned')].failed)
                => returned'[Len(returned')].key \in KeysOf(temporal_cache')]_vars

\* A call overflowed the full cache and the trim removed TemporalCacheTrim entries.
C15_Witness ==
    /\ returned # << >>
    /\ Len(temporal_cache) = TemporalCacheMax + 1 - TemporalCacheTrim
    /\ returned[Len(returned)].key \in KeysOf(temporal_cache)

(***************************************************************************)
(* SpecGenerate: requests that call generate_realistic_transactions at the *)
(* same time (the development server handles each request in a thread of   *)
(* its own and nothing locks CACHED_TRANSACTIONS).  A thread is switched   *)
(* between statements: after the test of the cache, between the two        *)
(* assignments to the cache, and before the cached list is read for the    *)
(* return.  The loop that generates works on a local list and is one step. *)
(***************************************************************************)

\* Requests running at the same time.
MaxThreads == 3

\* A request that is about to call generate_realistic_transactions(days, ...).
Entering(days) ==
    [days |-> days, at |-> "enter", transactions |-> << >>, generation_days |-> 0]

InitGenerate ==
    /\ threads \in [1..MaxThreads -> {Entering(d) : d \in DaysChoices}]
    /\ returned = << >>
    /\ StoreAtImport
    /\ temporal_cache = EmptyTemporalCache
    /\ env = NoEnv
    /\ call = NoCall
    /\ llm_calls = NoCalls
    /\ plan = NoClassification
    /\ txns = << >>
    /\ res = NotRun
    /\ pc = "generating"

\* What the threads of this specification leave alone.
handlerVars == <<plan, txns, res, pc, classifyVars, TRANSACTION_UPDATES, request, response,
                 chatVars>>

\* `generated_for_days >= days` on a cache that holds data
CacheCovers(cached, days) ==
    /\ cached.data # NoneV
    /\ cached.generated_for_days # NoneV
    /\ cached.generated_for_days.v >= days

\* The test of the cache; on a miss, the generation into the local list.
GenerateEnter(i) ==
    /\ threads[i].at = "enter"
    /\ threads' =
          [threads EXCEPT ![i] =
              IF CacheCovers(CACHED_TRANSACTIONS, threads[i].days)
              THEN [threads[i] EXCEPT !.at = "serve"]
              ELSE [threads[i] EXCEPT
                        !.at = "store_data",
                        !.generation_days = Max2(threads[i].days, GenerationFloor),
                        !.transactions = GenerateDays(0, Max2(threads[i].days, GenerationFloor),
                                                      SessionDay, << >>)]]
    /\ UNCHANGED <<returned, CACHED_TRANSACTIONS, handlerVars>>

\* The return from the cache: CACHED_TRANSACTIONS['data'] is read again.
GenerateServe(i) ==
    /\ threads[i].at = "serve"
    /\ returned' = Append(returned,
                          [days |-> threads[i].days, cached |-> TRUE,
                           list |-> WithinDays(CachedList(CACHED_TRANSACTIONS),
                                               threads[i].days, SessionDay)])
    /\ threads' = [threads EXCEPT ![i].at = "done"]
    /\ UNCHANGED <<CACHED_TRANSACTIONS, handlerVars>>

\* CACHED_TRANSACTIONS['data'] = transactions
GenerateStoreData(i) ==
    /\ threads[i].at = "store_data"
    /\ CACHED_TRANSACTIONS' =
          [CACHED_TRANSACTIONS EXCEPT !.data = Some(threads[i].transactions)]
    /\ threads' = [threads EXCEPT ![i].at = "store_days"]
    /\ UNCHANGED <<returned, handlerVars>>

\* CACHED_TRANSACTIONS['generated_for_days'] = generation_days, and the return
GenerateStoreDays(i) ==
    /\ threads[i].at = "store_days"
    /\ CACHED_TRANSACTIONS' =
          [CACHED_TRANSACTIONS EXCEPT !.generated_for_days = Some(threads[i].generation_days)]
    /\ returned' = Append(returned,
                          [days |-> threads[i].days, cached |-> FALSE,
                           list |-> WithinDays(threads[i].transactions,
                                               threads[i].days, SessionDay)])
    /\ threads' = [threads EXCEPT ![i].at = "done"]
    /\ UNCHANGED handlerVars

NextGenerate ==
    \E i \in 1..MaxThreads :
        \/ GenerateEnter(i)
        \/ GenerateServe(i)
        \/ GenerateStoreData(i)
        \/ GenerateStoreDays(i)

SpecGenerate == InitGenerate /\ [][NextGenerate]_vars

\* The days the records of a list fall on.
DaysCovered(list) == Cardinality({list[k].purchase_date : k \in 1..Len(list)})

\* C17: under requests that generate at the same time for different `days`,
\* the cache is never torn: whenever generated_for_days is set, the stored
\* data covers at least that many days, and a request answered from the cache
\* is given every day it asked for.
C17_CacheNeverTorn ==
    /\ (CACHED_TRANSACTIONS.data # NoneV /\ CACHED_TRANSACTIONS.generated_for_days # NoneV)
        => DaysCovered(CachedList(CACHED_TRANSACTIONS))
                >= CACHED_TRANSACTIONS.generated_for_days.v
    /\ \A k \in 1..Len(returned) :
          returned[k].cached => DaysCovered(returned[k].list) >= returned[k].days

(***************************************************************************)
(* SpecExtract: requests that run extract_temporal_with_llm at the same    *)
(* time on the shared _temporal_cache, which nothing locks.  A thread is   *)
(* switched between statements: after `cache_key in _temporal_cache`,      *)
(* after the read of the entry, around the call of the model, after the    *)
(* insert, after the test of the size with the sort, and after each `del`. *)
(***************************************************************************)

\* Extractions running at the same time.
MaxExtractors == 2

ThreadQueries ==
    {<<"a","r","o","u","n","d"," ","t","h","e"," ","h","o","l","i","d","a","y","s">>,
     <<"t","a","x"," ","s","e","a","s","o","n">>}

ThreadReplies == {FailedReply, Holidays, HolidaysOfOneYear}

\* A full cache whose oldest entry is the extraction of "tax season".
FullWithTaxSeason ==
    [RefreshedCache EXCEPT
        ![TemporalCacheMax].key = CacheKey(<<"t","a","x"," ","s","e","a","s","o","n">>, SessionDay)]

\* A request that is about to call extract_temporal_with_llm(query, today).
Extracting(query) ==
    [query |-> query, at |-> "check", reply |-> FailedReply, temporal_filter |-> NoTemporal,
     oldest_keys |-> << >>, order |-> 0]

InitExtract ==
    /\ threads \in [1..MaxExtractors -> {Extracting(q) : q \in ThreadQueries}]
    /\ returned = << >>
    /\ temporal_cache \in {EmptyTemporalCache, FullWithTaxSeason}
    /\ env \in {[NoEnv EXCEPT !.now = TemporalCacheMax],
                 [NoEnv EXCEPT !.now = TemporalCacheMax + TemporalTtl]}
    /\ call = NoCall
    /\ llm_calls = NoCalls
    /\ plan = NoClassification
    /\ txns = << >>
    /\ res = NotRun
    /\ pc = "extracting"
    /\ StoreAtImport

\* What the extracting threads leave alone.
idleVars == <<plan, txns, res, pc, call, env, llm_calls, storeVars>>

KeyOf(t) == CacheKey(t.query, env.today)

\* What the log keeps of a finished extraction: the reply of the model when
\* it was asked and parsed, the value returned, or the exception that left
\* the function.
Finished(t, asked, value, raised) ==
    [key |-> KeyOf(t), asked |-> asked, reply |-> t.reply, value |-> value, raised |-> raised]

\* if cache_key in _temporal_cache:
ExtractCheck(i) ==
    /\ threads[i].at = "check"
    /\ threads' = [threads EXCEPT ![i].at =
                      IF CacheIndex(temporal_cache, KeyOf(threads[i])) # {} THEN "read" ELSE "ask"]
    /\ UNCHANGED <<temporal_cache, returned, idleVars>>

\* cached_result, cached_time = _temporal_cache[cache_key], outside the try:
\* a KeyError when the entry was deleted since the test; else the age test.
ExtractRead(i) ==
    /\ threads[i].at = "read"
    /\ \E age \in {CachedAge(temporal_cache, KeyOf(threads[i]), env.now)} :
         IF age = Absent
         THEN /\ returned' = Append(returned, Finished(threads[i], FALSE, NoTemporal, TRUE))
              /\ threads' = [threads EXCEPT ![i].at = "done"]
         ELSE IF SecondsOf(age.v) < TemporalTtl
         THEN /\ returned' = Append(returned,
                    Finished(threads[i], FALSE,
                             temporal_cache[CHOOSE k \in CacheIndex(temporal_cache, KeyOf(threads[i])) : TRUE].value,
                             FALSE))
              /\ threads' = [threads EXCEPT ![i].at = "done"]
         ELSE /\ threads' = [threads EXCEPT ![i].at = "ask"]
              /\ UNCHANGED returned
    /\ UNCHANGED <<temporal_cache, idleVars>>

\* The filter built from a parsed reply.
FilterOf(reply) ==
    IF reply.no_temporal THEN NoTemporal
    ELSE [NoTemporal EXCEPT
            !.start_date = IF reply.start_date = Absent THEN NoneV ELSE reply.start_date,
            !.end_date = IF reply.end_date = Absent THEN NoneV ELSE reply.end_date]

\* The call of the model and the parse of its reply; a failure returns None.
ExtractAsk(i) ==
    /\ threads[i].at = "ask"
    /\ \E reply \in ThreadReplies :
         IF reply.tag = "fail"
         THEN /\ returned' = Append(returned, Finished(threads[i], FALSE, NoTemporal, FALSE))
              /\ threads' = [threads EXCEPT ![i].at = "done"]
         ELSE /\ threads' = [threads EXCEPT ![i].at = "insert", ![i].reply = reply,
                                            ![i].temporal_filter = FilterOf(reply)]
              /\ UNCHANGED returned
    /\ UNCHANGED <<temporal_cache, idleVars>>

\* The inserts made so far.
Inserts == Cardinality({j \in 1..MaxExtractors : threads[j].order > 0})

\* _temporal_cache[cache_key] = (temporal_filter, datetime.now())
ExtractInsert(i) ==
    /\ threads[i].at = "insert"
    /\ temporal_cache' = CachePut(temporal_cache, KeyOf(threads[i]),
                                  threads[i].temporal_filter, env.now)
    /\ threads' = [threads EXCEPT ![i].at = "test", ![i].order = Inserts + 1]
    /\ UNCHANGED <<returned, idleVars>>

RECURSIVE OldestKeys(_, _)
\* sorted(_temporal_cache.keys(), key=cached time)[:n]
OldestKeys(cache, n) ==
    IF n = 0 \/ cache = << >> THEN << >>
    ELSE LET i == MinOf({a \in 1..Len(cache) : \A b \in 1..Len(cache) : cache[a].time <= cache[b].time})
         IN  <<cache[i].key>> \o
             OldestKeys(SubSeq(cache, 1, i - 1) \o SubSeq(cache, i + 1, Len(cache)), n - 1)

\* if len(_temporal_cache) > 100: oldest_keys = sorted(...)[:20]
ExtractTest(i) ==
    /\ threads[i].at = "test"
    /\ threads' =
          IF Len(temporal_cache) > TemporalCacheMax
          THEN [threads EXCEPT ![i].at = "delete",
                               ![i].oldest_keys = OldestKeys(temporal_cache, TemporalCacheTrim)]
          ELSE [threads EXCEPT ![i].at = "return"]
    /\ UNCHANGED <<temporal_cache, returned, idleVars>>

\* The cache without the entry of a key.
Without(cache, key) == SelectSeq(cache, LAMBDA entry : entry.key # key)

\* del _temporal_cache[key] for the next of oldest_keys: a KeyError when the
\* key is gone, caught by the except, which returns None.
ExtractDelete(i) ==
    /\ threads[i].at = "delete"
    /\ IF CacheIndex(temporal_cache, Head(threads[i].oldest_keys)) = {}
       THEN /\ returned' = Append(returned, Finished(threads[i], TRUE, NoTemporal, FALSE))
            /\ threads' = [threads EXCEPT ![i].at = "done"]
            /\ UNCHANGED temporal_cache
       ELSE /\ temporal_cache' = Without(temporal_cache, Head(threads[i].oldest_keys))
            /\ threads' = [threads EXCEPT
                              ![i].oldest_keys = Tail(threads[i].oldest_keys),
                              ![i].at = IF Len(threads[i].oldest_keys) = 1 THEN "return" ELSE "delete"]
            /\ UNCHANGED returned
    /\ UNCHANGED idleVars

\* return temporal_filter
ExtractReturn(i) ==
    /\ threads[i].at = "return"
    /\ returned' = Append(returned, Finished(threads[i], TRUE, threads[i].temporal_filter, FALSE))
    /\ threads' = [threads EXCEPT ![i].at = "done"]
    /\ UNCHANGED <<temporal_cache, idleVars>>

NextExtract ==
    \E i \in 1..MaxExtractors :
        \/ ExtractCheck(i)
        \/ ExtractRead(i)
        \/ ExtractAsk(i)
        \/ ExtractInsert(i)
        \/ ExtractTest(i)
        \/ ExtractDelete(i)
        \/ ExtractReturn(i)

SpecExtract == InitExtract /\ [][NextExtract]_vars

\* The thread that wrote the key last.
LastWriter(key) ==
    {j \in 1..MaxExtractors :
        /\ threads[j].order > 0
        /\ KeyOf(threads[j]) = key
        /\ \A l \in 1..MaxExtractors :
              (threads[l].order > 0 /\ KeyOf(threads[l]) = key) => threads[l].order <= threads[j].order}

\* C18: when extractions run at the same time, a request whose call of the
\* model succeeded with parseable output returns the filter it extracted
\* (it does not fail or return None because of another request's insert or
\* trim), and the cache holds, for each key written, the last writer's value.
C18_ConcurrentExtractionsSucceed ==
    /\ \A k \in 1..Len(returned) :
          returned[k].asked =>
              /\ ~returned[k].raised
              /\ returned[k].value = FilterOf(returned[k].reply)
    /\ \A j \in 1..Len(threads), c \in 1..Len(temporal_cache) :
          (j \in LastWriter(temporal_cache[c].key))
              => temporal_cache[c].value = threads[j].temporal_filter

(***************************************************************************)
(* Claims about the answer and the conversation of the chat endpoint.      *)
(***************************************************************************)

\* C21: when the final text-generation call fails, on any of the three
\* answer paths, the body of the response has the fixed apology in
\* `response`; the exception is not propagated and its text is not returned.
C21_FailedGenerationGivesFallback ==
    (response.endpoint = "chat" /\ locals.generation = "raised")
    => /\ response.response = Some("apology")
       /\ response.error = Some("Failed to generate response")

\* Generation failed on the path that returns early, after the merchants
\* were matched.
C21_Witness ==
    /\ response.endpoint = "chat"
    /\ locals.generation = "raised"
    /\ locals.llm_filter_result # NoneV
    /\ response.response = Some("apology")

(***************************************************************************)
(* SpecChat: the chat endpoint with conversations.  The requests carry a   *)
(* conversation_id or not, and a message_history or not; the RAG service   *)
(* of the installation is enabled or not.                                  *)
(***************************************************************************)

ConversationQueries ==
    {<<"h","o","w"," ","m","u","c","h"," ","d","i","d"," ","I"," ","s","p","e","n","d"," ","t","h","e","r","e">>,
     <<"h","o","w"," ","m","u","c","h"," ","d","i","d"," ","I"," ","s","p","e","n","d"," ","l","a","s","t"," ","m","o","n","t","h">>,
     <<"w","h","a","t"," ","d","i","d"," ","I"," ","b","u","y"," ","i","n"," ","j","a","n","u","a","r","y">>,
     <<"h","e","l","l","o">>}

\* One message of message_history.
Message(role, content, timestamp) ==
    [role |-> role, content |-> content, timestamp |-> timestamp]

\* message_history, oldest message first: a first turn that names Amazon and
\* a later turn that names Starbucks; one turn that names Starbucks Coffee.
Histories ==
    {<< >>,
     <<Message(<<"u","s","e","r">>,
               <<"W","h","a","t"," ","d","i","d"," ","I"," ","b","u","y"," ","f","r","o","m"," ","A","m","a","z","o","n",".">>, 1),
       Message(<<"a","s","s","i","s","t","a","n","t">>,
               <<"Y","o","u"," ","s","p","e","n","t"," ","$","5"," ","a","t"," ","S","t","a","r","b","u","c","k","s",","," ","t","w","i","c","e",".">>, 2)>>}

ConversationRequests ==
    {[NoRequest EXCEPT !.endpoint = "chat", !.message = q, !.conversation_id = id,
                       !.message_history = h] :
        q \in ConversationQueries, id \in {NoneV, Some("c1")}, h \in Histories}

InitChat ==
    /\ CACHED_TRANSACTIONS = EmptyTransactionCache
    /\ TRANSACTION_UPDATES = NoUpdates
    /\ request = NoRequest
    /\ response = NoBody
    /\ rag_service \in {RAGService(TRUE), RAGService(FALSE)}
    /\ conversation_memory = << >>
    /\ locals = NoLocals
    /\ NoThreads
    /\ temporal_cache = EmptyTemporalCache
    /\ call = NoCall
    /\ env = NoEnv
    /\ llm_calls = NoCalls
    /\ plan = NoClassification
    /\ txns = << >>
    /\ res = NotRun
    /\ pc = "serving"

\* A chat request arrives.
ReceiveChat ==
    /\ pc = "serving"
    /\ request = NoRequest
    /\ request' \in ConversationRequests
    /\ response' = NoBody
    /\ NoChat
    /\ UNCHANGED <<CACHED_TRANSACTIONS, TRANSACTION_UPDATES>>

NextChat ==
    \/ ReceiveChat
    \/ ChatUnavailable
    \/ Chat

SpecChat == InitChat /\ [][NextChat]_vars

\* The last request was a chat with a conversation_id, answered with a
\* generated text.
ConversationAnswered ==
    /\ request.endpoint = "chat"
    /\ TruthyOpt(request.conversation_id)
    /\ response'.endpoint = "chat"
    /\ response'.status = 200
    /\ response'.response = Some("generated")

\* The memory holds a turn of the conversation with this role and content.
Recorded(memory, conversation_id, role, content) ==
    \E k \in 1..Len(memory) :
        /\ memory[k].conversation_id = conversation_id
        /\ memory[k].role = role
        /\ memory[k].document = role \o <<":", " ">> \o content

\* C22: a chat request that carries a conversation_id and is answered
\* records its user turn and its assistant turn in the conversation memory,
\* whichever path served it, and leaves the turns recorded before as they are.
C22_TurnsRecorded ==
    [][ConversationAnswered
        => /\ Recorded(conversation_memory', request.conversation_id.v,
                       <<"u","s","e","r">>, request.message)
           /\ Recorded(conversation_memory', request.conversation_id.v,
                       <<"a","s","s","i","s","t","a","n","t">>, AnswerText)
           /\ \A k \in 1..Len(conversation_memory) :
                 conversation_memory'[k] = conversation_memory[k]]_vars

\* The turns of the context in which a pattern finds an entity name.
NamingTurns(current_conversation) ==
    {k \in 1..Len(current_conversation) :
        \E e \in FirstEntity(current_conversation[k].text) : Len(e) > 2}

\* The latest of the turns that name an entity.
MostRecentNaming(current_conversation) ==
    CHOOSE k \in NamingTurns(current_conversation) :
        \A j \in NamingTurns(current_conversation) :
            current_conversation[j].timestamp <= current_conversation[k].timestamp

\* C24: when the query holds a referential word and several recent turns
\* each name an entity, the resolved query has the entity of the most recent
\* of those turns.
C24_MostRecentEntityWins ==
    (/\ response.endpoint = "chat"
     /\ IsReferential(Lower(locals.user_query))
     /\ Cardinality(NamingTurns(locals.current_conversation)) >= 2)
    => locals.resolved_query =
          ResolvedBy(locals.current_conversation[
                        MostRecentNaming(locals.current_conversation)].text,
                     locals.user_query)

\* C25: when the reference resolution rewrote the query, the classification
\* and the context retrieval are both made on the rewritten query.
C25_RewrittenQueryIsClassified ==
    (response.endpoint = "chat" /\ locals.resolved_query # locals.user_query)
    => /\ call.query = locals.resolved_query
       /\ locals.context = Some([query |-> locals.resolved_query])

\* t satisfies the temporal filter: the exact date, the month and year, or
\* the range.
InFilter(temporal, t) ==
    /\ temporal.date # Absent => t.purchase_date = temporal.date.v
    /\ (temporal.month # Absent /\ temporal.year # Absent)
          => MatchesMonthYear(t.purchase_date, temporal.month, temporal.year)
    /\ TruthyOpt(temporal.start_date) => DateLeq(temporal.start_date.v, t.purchase_date)
    /\ TruthyOpt(temporal.end_date) => DateLeq(t.purchase_date, temporal.end_date.v)

\* C27: on the semantic_llm_filter path every record of
\* matching_transactions satisfies the temporal filter of the classification.
C27_MatchesWithinTemporalFilter ==
    (response.endpoint = "chat" /\ locals.llm_filter_result # NoneV)
    => \A k \in 1..Len(locals.llm_filter_result.v.matching_transactions) :
          InFilter(plan.filters.temporal,
                   locals.llm_filter_result.v.matching_transactions[k])

(***************************************************************************)
(* SpecMemory: calls of embed_conversation_message and of                  *)
(* retrieve_conversation_context, one after the other, on the RAG service  *)
(* of the installation.  `returned` logs each call with what it returned.  *)
(***************************************************************************)

ConversationIds == {"c1", "c2"}

Roles == {<<"u","s","e","r">>, <<"a","s","s","i","s","t","a","n","t">>}

Contents == {<<"h","e","l","l","o">>, <<"a","t"," ","A","m","a","z","o","n",".">>}

InitMemory ==
    /\ CACHED_TRANSACTIONS = EmptyTransactionCache
    /\ TRANSACTION_UPDATES = NoUpdates
    /\ request = NoRequest
    /\ response = NoBody
    /\ rag_service \in {RAGService(TRUE), RAGService(FALSE)}
    /\ conversation_memory = << >>
    /\ locals = NoLocals
    /\ NoThreads
    /\ temporal_cache = EmptyTemporalCache
    /\ call = NoCall
    /\ env = NoEnv
    /\ llm_calls = NoCalls
    /\ plan = NoClassification
    /\ txns = << >>
    /\ res = NotRun
    /\ pc = "memory"

\* What the calls on the memory leave alone.
memoryIdle ==
    <<plan, txns, res, pc, classifyVars, CACHED_TRANSACTIONS, TRANSACTION_UPDATES,
      request, response, rag_service, locals, threads>>

\* embed_conversation_message(rag_service, conversation_id, uuid, role, content, timestamp)
EmbedMessage ==
    /\ pc = "memory"
    /\ Len(returned) < MaxCalls
    /\ \E id \in ConversationIds, role \in Roles, content \in Contents :
          \E r \in {EmbedConversationMessage(rag_service, conversation_memory, id,
                                             Len(conversation_memory) + 1, role, content,
                                             Len(returned))} :
              /\ conversation_memory' = r.memory
              /\ returned' = Append(returned,
                                    [op |-> "embed", conversation_id |-> id, role |-> role,
                                     content |-> content, ok |-> r.ok])
    /\ UNCHANGED memoryIdle

\* retrieve_conversation_context(rag_service, query, conversation_id, n_results=5)
RetrieveContext ==
    /\ pc = "memory"
    /\ Len(returned) < MaxCalls
    /\ \E id \in {NoneV} \cup {Some(c) : c \in ConversationIds},
          ranking \in Rankings(conversation_memory) :
          returned' = Append(returned,
                             [op |-> "retrieve", conversation_id |-> id,
                              current_conversation |->
                                  RetrieveConversationContext(rag_service, conversation_memory,
                                                              ranking, id, 5)])
    /\ UNCHANGED <<conversation_memory, memoryIdle>>

NextMemory ==
    \/ EmbedMessage
    \/ RetrieveContext

SpecMemory == InitMemory /\ [][NextMemory]_vars

\* The i-th call embedded a turn and the j-th call, later, retrieved the
\* context of the turn's conversation.
EmbeddedThenRetrieved(i, j) ==
    /\ i < j
    /\ returned[i].op = "embed"
    /\ returned[j].op = "retrieve"
    /\ returned[j].conversation_id = Some(returned[i].conversation_id)

\* C23: on an enabled RAG service, embed_conversation_message reports
\* success, and a later retrieve_conversation_context for the conversation
\* returns the turn in current_conversation (the memory of the model never
\* holds more turns than n_results, so every turn is among the top results).
C23_EmbeddedTurnIsRetrieved ==
    (pc = "memory" /\ rag_service.enabled)
    => \A i, j \in 1..Len(returned) :
          EmbeddedThenRetrieved(i, j)
          => /\ returned[i].ok
             /\ \E k \in 1..Len(returned[j].current_conversation) :
                   returned[j].current_conversation[k].text =
                       returned[i].role \o <<":", " ">> \o returned[i].content

(***************************************************************************)
(* SpecFilter: one call of filter_transactions_with_llm as PATH 1.5 makes  *)
(* it: call.query is the query, txns is all_transactions, the temporal     *)
(* filter of plan gives temporal_filtered, env.llm is the reply of the     *)
(* merchant-matching model.                                                *)
(***************************************************************************)

FilterQueries ==
    {<<"W","h","a","t"," ","C","o","f","f","e","e"," ","s","h","o","p","s","?">>,
     <<"w","h","i","c","h"," ","r","i","d","e","s">>}

FilterTemporals == {NoTemporal, MonthYear(1, 2025), RangeFrom(<<2025, 2, 1>>)}

InitFilter ==
    /\ StoreAtImport
    /\ NoThreads
    /\ temporal_cache = EmptyTemporalCache
    /\ llm_calls = NoCalls
    /\ res = NotRun
    /\ pc = "filtering"
    /\ \E query \in FilterQueries : call = [NoCall EXCEPT !.query = query]
    /\ \E reply \in FilterReplies : env = [NoEnv EXCEPT !.llm = reply]
    /\ \E temporal \in FilterTemporals :
          plan = [NoClassification EXCEPT !.filters.temporal = temporal]
    /\ txns \in TxnLists

\* filter_transactions_with_llm(user_query, all_transactions, temporal_filtered)
FilterTransactions ==
    /\ pc = "filtering"
    /\ \E seed \in HashSeeds :
          returned' = <<FilterTransactionsWithLlm(call.query, txns,
                                                   ListTemporal(plan.filters.temporal, txns),
                                                   env.llm, seed)>>
    /\ pc' = "filtered"
    /\ UNCHANGED <<plan, txns, res, classifyVars, storeVars, threads>>

NextFilter == FilterTransactions

SpecFilter == InitFilter /\ [][NextFilter]_vars

\* txns_to_analyze of the call.
Analyzed ==
    IF ListTemporal(plan.filters.temporal, txns) # << >>
    THEN ListTemporal(plan.filters.temporal, txns)
    ELSE txns

\* The records of txns_to_analyze whose description holds a coffee keyword.
CoffeeRecords ==
    SelectSeq(Analyzed, LAMBDA t : \E k \in 1..Len(coffee_fallback) :
                                      Contains(coffee_fallback[k], Lower(t.description)))

\* C26: when the call of the merchant-matching model fails,
\* filter_transactions_with_llm returns the records the coffee keywords match
\* when the query mentions coffee and a record matches, and otherwise no
\* merchant and no record with a reasoning that is not empty.
C26_FailedFilterFallsBack ==
    (pc = "filtered" /\ env.llm = FailedReply)
    => IF Contains(<<"c","o","f","f","e","e">>, Lower(call.query)) /\ CoffeeRecords # << >>
       THEN /\ returned[1].matching_transactions = CoffeeRecords
            /\ {returned[1].matching_merchants[k] :
                    k \in 1..Len(returned[1].matching_merchants)}
                 = {CoffeeRecords[k].description : k \in 1..Len(CoffeeRecords)}
       ELSE /\ returned[1].matching_transactions = << >>
            /\ returned[1].matching_merchants = << >>
            /\ returned[1].reasoning # ""

\* The heuristic returned some records of a list and left others out.
C26_Witness ==
    /\ pc = "filtered"
    /\ env.llm = FailedReply
    /\ returned[1].matching_transactions # << >>
    /\ Len(returned[1].matching_transactions) < Len(Analyzed)
    /\ Len(returned[1].matching_merchants) >= 2

(***************************************************************************)
(* SpecRecent: classify_financial_query on queries that ask for the most   *)
(* recent transactions, then the executor, over stores whose records are   *)
(* all older than a week on the session's day.                             *)
(***************************************************************************)

\* Queries that ask for the latest records and name no time period.
RecencyQueries ==
    {<<"m","o","s","t"," ","r","e","c","e","n","t"," ","t","r","a","n","s","a","c","t","i","o","n","s">>,
     <<"l","a","t","e","s","t"," ","2"," ","p","u","r","c","h","a","s","e","s">>,
     <<"m","y"," ","l","a","s","t"," ","p","u","r","c","h","a","s","e"," ","a","t"," ","s","t","a","r","b","u","c","k","s">>}

InitRecent ==
    /\ call \in {[query |-> q, use_llm |-> TRUE, mode |-> m] :
                    q \in RecencyQueries \cup {BaseQueries[Len(BaseQueries)]},
                    m \in {"hybrid", "rule_based_only"}}
    /\ env = [NoEnv EXCEPT !.replies = <<FailedReply, FailedReply>>]
    /\ temporal_cache = EmptyTemporalCache
    /\ llm_calls = NoCalls
    /\ plan = NoClassification
    /\ txns \in TxnLists
    /\ res = NotRun
    /\ pc = "ready"
    /\ StoreAtImport
    /\ NoThreads

SpecRecent == InitRecent /\ [][NextClassify]_vars

\* The records of the store that the merchant and category filters keep,
\* latest date first.
LatestFirst ==
    SortedByDateDesc(ApplyCategories(plan.filters.categories,
                                     ApplyMerchants(plan.filters.merchants, txns)))

\* C28: for a query that asks for the most recent transactions and names no
\* time period, the rule-based classification has no date restriction, and
\* the executor returns the `limit` records of latest date of the whole
\* store, however old they are.
C28_RecencyHasNoDateRestriction ==
    (call.query \in RecencyQueries /\ Classified /\ ~plan.llm_classified)
    => /\ plan.intent = "find_recent"
       /\ ~TruthyTemporal(plan.filters.temporal)
       /\ (pc = "done" /\ ExpensesOnly(LatestFirst) # << >>)
             => res.recent_transactions = TakeLimit(plan.filters.limit, LatestFirst)

(***************************************************************************)
(* Claims about the executor and the classifier.                           *)
(***************************************************************************)

\* C29: find_maximum returns a record whose absolute amount is at least that
\* of every record of the set the computation runs on, also when that set is
\* the whole filtered set for want of an expense; find_minimum returns a
\* record of smallest absolute amount.
C29_ExtremeByAbsoluteAmount ==
    (Done /\ plan.intent \in {"find_maximum", "find_minimum"} /\ res.result.kind = "txn")
    => \A k \in 1..Len(OperandSet(plan.intent, res.filtered_transactions)) :
          IF plan.intent = "find_maximum"
          THEN Abs(res.result.txn.amount)
                  >= Abs(OperandSet(plan.intent, res.filtered_transactions)[k].amount)
          ELSE Abs(res.result.txn.amount)
                  <= Abs(OperandSet(plan.intent, res.filtered_transactions)[k].amount)

\* C30: in mode rule_based_only, or with use_llm false, a call of
\* classify_financial_query calls neither the classification model nor the
\* temporal-extraction model and leaves the temporal cache as it was.
C30_RuleBasedOnlyCallsNoModel ==
    [][(pc = "ready" /\ pc' = "classified"
        /\ (call.mode = "rule_based_only" \/ ~call.use_llm))
       => /\ llm_calls' = NoCalls
          /\ temporal_cache' = temporal_cache]_vars

====
